---- MODULE Spec2Model ----
(***************************************************************************)
(* Support-desk relay bot: the message-routing and state-reconciliation    *)
(* core (code/support_bot).                                                *)
(*                                                                         *)
(* The store is the five SQL tables of db.py, each a set of rows with its  *)
(* integer primary key.  The Messaging Gateway (Telegram through aiogram)  *)
(* is the environment: the topics alive in the admin group, the id         *)
(* sequences of the private chats and of the admin group, and the          *)
(* admin-originated messages visible in the users' chats.                  *)
(*                                                                         *)
(* A handler is a coroutine: it runs atomically between two awaits that    *)
(* suspend (a store call, a gateway call).  Each handler is a small        *)
(* program-counter machine, one step per suspending await; an await of a   *)
(* coroutine that returns without I/O (save_for_destruction with no        *)
(* destruction window configured, ...) is no step.  A gateway call draws   *)
(* its outcome from Outcomes.  Module-level names are resolved to their    *)
(* definition in the repository (cmd_start's _new_topic is                 *)
(* utils._new_topic, the keyboard helpers used by buttons.py are those of  *)
(* utils.py).  A method is looked up on the class of its object: a call    *)
(* of a method that class does not define raises AttributeError.           *)
(***************************************************************************)
EXTENDS Integers, Sequences, FiniteSets, TLC

\* ------------------------------------------------------------------ bounds
MaxUsers == 2
MaxAdmins == 1
MaxThreads == 2
MaxPm == 6
MaxEvents == 6
MaxFaultEvents == 4
MaxDbOps == 4
MaxDays == 2
MaxIds == 2
MaxGroupMsgs == 2
MaxEdits == 1
MaxTasks == 3
MaxCalls == 5
MaxRelayEvents == 6
MaxLateEvents == 5

\* ------------------------------------------------------- program constants
\* Python's None in an integer column or argument (thread_id, chat_id).
None == 0
\* cfg['admin_group_id']: the chat id of the admin group.
GroupId == -1
\* bot.menu: menu.toml is present (the contact button comes from it).
Menu == TRUE
\* cfg['first_reply']: the default is a non-empty text, and an empty
\* environment value does not replace it.
FirstReply == TRUE
\* bot.admin_quick_replies: admin_replies.toml is present.
QuickReplies == TRUE

Users == 1..MaxUsers
Admins == 1..MaxAdmins
Slots == 1..MaxTasks
\* A topic of the admin group that the bot did not create for a user.
SysThread == MaxThreads + 1

VARIABLES
  tgusers,      \* table tgusers
  actionstats,  \* table actionstats
  adminstats,   \* table adminstats
  msgtodel,     \* table messages_to_delete
  msgmirror,    \* table mirrored_messages
  topics,       \* gateway: thread ids alive in the admin group
  topic_seq,    \* gateway: the last thread id given out
  pm_seq,       \* gateway: the last message id given out in private chats
  userchat,     \* gateway: admin-originated messages present in user chats
  groupmsgs,    \* gateway: admin-authored messages present in the admin group
  group_seq,    \* gateway: the last id of an admin-authored group message
  cfg,          \* bot.cfg: the two destruction windows (0: not configured)
  today,        \* datetime.date.today()
  dblock,       \* SQLite: the slot whose transaction holds the write lock, or 0
  schema,       \* SQLite schema and the repositories' first-access flags
  sweep,        \* utils.destruct_messages: the bots' stores and the run's position
  added,        \* history: per name and day, the action.add calls made directly
  tasks,        \* the handler invocations in flight or last completed
  nev,          \* history: the number of events delivered
  nu,           \* history: per user, the new_user increments of its handlers
  scn           \* history: the stage of the end-to-end scenario, or Off

vars == <<tgusers, actionstats, adminstats, msgtodel, msgmirror, topics,
          topic_seq, pm_seq, userchat, groupmsgs, group_seq, cfg, today,
          dblock, schema, sweep, added, tasks, nev, nu, scn>>

\* ---------------------------------------------------------------- helpers
Max(S) == CHOOSE x \in S : \A y \in S : y <= x
Min(S) == CHOOSE x \in S : \A y \in S : x <= y

\* The rowid SQLite gives an inserted row of an INTEGER PRIMARY KEY table.
NextId(tbl) == IF tbl = {} THEN 1 ELSE Max({r.id : r \in tbl}) + 1

\* result.fetchone(): the first row (in rowid order) of a result set.
FirstRow(rows, none) ==
  IF rows = {} THEN none ELSE CHOOSE r \in rows : r.id = Min({q.id : q \in rows})

Found(row) == row.id # 0

\* ------------------------------------------------------------ SqlTgUser
NoUser == [id |-> 0, user_id |-> 0, thread_id |-> None, last_user_msg_at |-> 0,
           subject |-> "", banned |-> FALSE, first_replied |-> FALSE,
           can_message |-> FALSE]

\* SqlTgUser.add: delete the rows of this user_id, insert the new row.
TgUserAdd(tbl, user_id, date, thread_id, first_replied, can_message) ==
  LET kept == {r \in tbl : r.user_id # user_id}
  IN kept \cup {[id |-> NextId(kept), user_id |-> user_id, thread_id |-> thread_id,
                 last_user_msg_at |-> date, subject |-> "", banned |-> FALSE,
                 first_replied |-> first_replied, can_message |-> can_message]}

\* A get that ignores the thread asked for.
TgUserGetAnyThread(tbl, user_id, thread_id) ==
  FirstRow({r \in tbl : user_id = None \/ r.user_id = user_id}, NoUser)

\* SqlTgUser.get(user=...) and SqlTgUser.get(thread_id=...).
TgUserGet(tbl, user_id, thread_id) ==
  IF user_id # None
  THEN FirstRow({r \in tbl : r.user_id = user_id}, NoUser)
  ELSE FirstRow({r \in tbl : r.thread_id = thread_id}, NoUser)

\* The value of column c after an UPDATE with the columns of kw.
Col(r, kw, c) == IF c \in DOMAIN kw THEN kw[c] ELSE r[c]

\* An UPDATE without its WHERE clause.
TgUserUpdateAll(tbl, user_id, kw) ==
  {[id |-> r.id, user_id |-> r.user_id,
    thread_id |-> Col(r, kw, "thread_id"),
    last_user_msg_at |-> Col(r, kw, "last_user_msg_at"),
    subject |-> Col(r, kw, "subject"),
    banned |-> Col(r, kw, "banned"),
    first_replied |-> Col(r, kw, "first_replied"),
    can_message |-> Col(r, kw, "can_message")] : r \in tbl}

\* SqlTgUser.update(user_id, user_msg=None, **kwargs): kw is the record of
\* the columns given (last_user_msg_at among them when user_msg is given).
TgUserUpdate(tbl, user_id, kw) ==
  {IF r.user_id = user_id
   THEN [id |-> r.id, user_id |-> r.user_id,
         thread_id |-> Col(r, kw, "thread_id"),
         last_user_msg_at |-> Col(r, kw, "last_user_msg_at"),
         subject |-> Col(r, kw, "subject"),
         banned |-> Col(r, kw, "banned"),
         first_replied |-> Col(r, kw, "first_replied"),
         can_message |-> Col(r, kw, "can_message")]
   ELSE r : r \in tbl}

\* SqlTgUser.del_thread_id.
TgUserDelThreadId(tbl, user_id) == TgUserUpdate(tbl, user_id, [thread_id |-> None])

\* ------------------------------------------------------------- SqlAction
\* The UniqueConstraint('name', 'date') of actionstats: the INSERT of
\* SqlAction.add raises IntegrityError when a row of the key exists.
ActionConflictNever(tbl, name, date) == FALSE

ActionConflict(tbl, name, date) == \E r \in tbl : r.name = name /\ r.date = date

ActionInsert(tbl, name, date) ==
  tbl \cup {[id |-> NextId(tbl), name |-> name, date |-> date, count |-> 1]}

ActionUpdate(tbl, name, date) ==
  {IF r.name = name /\ r.date = date THEN [r EXCEPT !.count = @ + 1] ELSE r : r \in tbl}

\* SqlAction.add: insert, and on IntegrityError update count = count + 1.
ActionAdd(tbl, name, date) ==
  IF ActionConflict(tbl, name, date)
  THEN ActionUpdate(tbl, name, date)
  ELSE ActionInsert(tbl, name, date)

\* ------------------------------------------------------ SqlMessageToDelete
NoMsg == [chat |-> None, message_id |-> 0, date |-> 0, is_bot |-> FALSE]

\* The UniqueConstraint('chat_id', 'msg_id') of messages_to_delete.
MsgToDelConflict(tbl, chat_id, msg_id) ==
  \E r \in tbl : r.chat_id = chat_id /\ r.msg_id = msg_id

\* The INSERT of add: the table after it, and the error it raises.
MsgToDelInsert(tbl, vals) ==
  IF MsgToDelConflict(tbl, vals.chat_id, vals.msg_id)
  THEN [tbl |-> tbl, err |-> "IntegrityError"]
  ELSE [tbl |-> tbl \cup {[id |-> NextId(tbl), chat_id |-> vals.chat_id,
                            msg_id |-> vals.msg_id, sent_at |-> vals.sent_at,
                            by_bot |-> vals.by_bot]},
        err |-> "none"]

\* The except clause of add: IntegrityError is passed over.
MsgToDelExceptReraises(err) == err

MsgToDelExcept(err) == IF err = "IntegrityError" THEN "none" ELSE err

\* SqlMessageToDelete.add(msg, chat_id=None) at time utcnow: the row of a
\* copied message (chat_id given) or of a full message object.
MsgToDelAdd(tbl, msg, chat_id, utcnow) ==
  LET vals == IF chat_id # None
              THEN [chat_id |-> chat_id, msg_id |-> msg.message_id, sent_at |-> utcnow,
                    by_bot |-> TRUE]
              ELSE [chat_id |-> msg.chat, msg_id |-> msg.message_id, sent_at |-> msg.date,
                    by_bot |-> msg.is_bot]
      r == MsgToDelInsert(tbl, vals)
  IN [tbl |-> r.tbl, err |-> MsgToDelExcept(r.err)]

\* SqlMessageToDelete.get_many(before, by_bot).
MsgToDelGetMany(tbl, before, by_bot) ==
  {r \in tbl : r.sent_at <= before /\ r.by_bot = by_bot}

\* ---------------------------------------------------- SqlMirroredMessages
NoMirror == [id |-> 0, admin_chat_id |-> 0, admin_msg_id |-> 0, user_chat_id |-> 0,
             user_msg_id |-> 0, thread_id |-> None]

\* An add that leaves a row of the key as it is (INSERT OR IGNORE).
MirrorAddIgnore(tbl, admin_chat_id, admin_msg_id, user_chat_id, user_msg_id, thread_id) ==
  IF \E r \in tbl : r.admin_chat_id = admin_chat_id /\ r.admin_msg_id = admin_msg_id
  THEN tbl
  ELSE tbl \cup {[id |-> NextId(tbl), admin_chat_id |-> admin_chat_id,
                   admin_msg_id |-> admin_msg_id, user_chat_id |-> user_chat_id,
                   user_msg_id |-> user_msg_id, thread_id |-> thread_id]}

\* SqlMirroredMessages.add: INSERT OR REPLACE under
\* UNIQUE(admin_chat_id, admin_msg_id): the rows in conflict are deleted and
\* the new row is inserted.
MirrorAddInsertOnly(tbl, admin_chat_id, admin_msg_id, user_chat_id, user_msg_id, thread_id) ==
  tbl \cup {[id |-> NextId(tbl), admin_chat_id |-> admin_chat_id,
              admin_msg_id |-> admin_msg_id, user_chat_id |-> user_chat_id,
              user_msg_id |-> user_msg_id, thread_id |-> thread_id]}

MirrorAdd(tbl, admin_chat_id, admin_msg_id, user_chat_id, user_msg_id, thread_id) ==
  LET kept == {r \in tbl : ~(r.admin_chat_id = admin_chat_id /\ r.admin_msg_id = admin_msg_id)}
  IN kept \cup {[id |-> NextId(kept), admin_chat_id |-> admin_chat_id,
                 admin_msg_id |-> admin_msg_id, user_chat_id |-> user_chat_id,
                 user_msg_id |-> user_msg_id, thread_id |-> thread_id]}

\* SqlMirroredMessages.get.
MirrorGet(tbl, admin_chat_id, admin_msg_id) ==
  FirstRow({r \in tbl : r.admin_chat_id = admin_chat_id /\ r.admin_msg_id = admin_msg_id},
           NoMirror)

\* A delete without its WHERE clause.
MirrorDeleteAll(tbl, admin_chat_id, admin_msg_id) == {}

\* SqlMirroredMessages.delete.
MirrorDelete(tbl, admin_chat_id, admin_msg_id) ==
  {r \in tbl : ~(r.admin_chat_id = admin_chat_id /\ r.admin_msg_id = admin_msg_id)}

\* ---------------------------------------------------------- SqlAdminStats
\* field.lower() for the field names the model draws.
Lower(field) ==
  CASE field = "Replies" -> "replies"
    [] field = "EDITS" -> "edits"
    [] OTHER -> field

StatFields == {"replies", "edits", "deletes"}

\* The UniqueConstraint('admin_id', 'date') of adminstats.
AdminStatsConflict(tbl, admin_id, date) ==
  \E r \in tbl : r.admin_id = admin_id /\ r.date = date

\* The INSERT of bump: the field at 1; the other counters take the column
\* default 0.
AdminStatsInsert(tbl, admin_id, admin_name, field, date) ==
  tbl \cup {[id |-> NextId(tbl), admin_id |-> admin_id, admin_name |-> admin_name,
             date |-> date,
             replies |-> IF field = "replies" THEN 1 ELSE 0,
             edits |-> IF field = "edits" THEN 1 ELSE 0,
             deletes |-> IF field = "deletes" THEN 1 ELSE 0]}

\* The UPDATE of bump: field = field + 1, admin_name = the name given.
AdminStatsUpdate(tbl, admin_id, admin_name, field, date) ==
  {IF r.admin_id = admin_id /\ r.date = date
   THEN [r EXCEPT !.admin_name = admin_name,
                  !.replies = IF field = "replies" THEN @ + 1 ELSE @,
                  !.edits = IF field = "edits" THEN @ + 1 ELSE @,
                  !.deletes = IF field = "deletes" THEN @ + 1 ELSE @]
   ELSE r : r \in tbl}

\* A bump that stores a row for whatever field it is given.
AdminStatsBumpAnyField(tbl, admin_id, admin_name, field, date) ==
  IF AdminStatsConflict(tbl, admin_id, date)
  THEN AdminStatsUpdate(tbl, admin_id, admin_name, Lower(field), date)
  ELSE AdminStatsInsert(tbl, admin_id, admin_name, Lower(field), date)

\* A bump that writes nothing.
AdminStatsBumpDropped(tbl, admin_id, admin_name, field, date) == tbl

\* SqlAdminStats.bump(admin_id, admin_name, field) on day date.
AdminStatsBump(tbl, admin_id, admin_name, field, date) ==
  LET f == Lower(field)
      name == IF admin_name = "" THEN "-" ELSE admin_name
  IN IF f \notin StatFields THEN tbl
     ELSE IF AdminStatsConflict(tbl, admin_id, date)
          THEN AdminStatsUpdate(tbl, admin_id, name, f, date)
          ELSE AdminStatsInsert(tbl, admin_id, name, f, date)

\* ------------------------------------------------- the world and the tasks
\* The store and the gateway state a step reads and writes.
World ==
  [tgusers |-> tgusers, actionstats |-> actionstats, adminstats |-> adminstats,
   msgtodel |-> msgtodel, msgmirror |-> msgmirror, topics |-> topics,
   topic_seq |-> topic_seq, pm_seq |-> pm_seq, userchat |-> userchat,
   groupmsgs |-> groupmsgs]

EmptyWorld ==
  [tgusers |-> {}, actionstats |-> {}, adminstats |-> {}, msgtodel |-> {},
   msgmirror |-> {}, topics |-> {}, topic_seq |-> 0, pm_seq |-> 0, userchat |-> {},
   groupmsgs |-> {}]

\* One invocation of a handler or of a repository call: its arguments (h, u,
\* a, th, mid, date, reply_to, btn, kind, chat_id, lo, hi), its position pc,
\* its local variables, and the log of the gateway calls it made; pre keeps
\* the world it started in.  The clock is logical: the date of a message is
\* its id in the sequence of its chat.
NewTask(h, pc, u, a, th, mid, reply_to, btn, kind) ==
  [h |-> h, pc |-> pc, u |-> u, a |-> a, th |-> th, mid |-> mid, date |-> mid,
   reply_to |-> reply_to, btn |-> btn, kind |-> kind,
   tguser |-> NoUser, thread_id |-> None, new_user |-> FALSE, sent |-> NoMsg,
   copied |-> 0, mapping |-> NoMirror, updated |-> FALSE, ret |-> "",
   exc |-> "none", calls |-> <<>>, logged |-> FALSE, escaped |-> FALSE,
   chat_id |-> None, lo |-> 0, hi |-> 0, report |-> <<>>, pre |-> EmptyWorld]

IdleTask == NewTask("", "idle", 0, 0, 0, 0, 0, "", "")

Running(t) == t.pc \notin {"idle", "done"}

R(w, t) == [w |-> w, t |-> t]
Goto(t, pc) == [t EXCEPT !.pc = pc]
Done(t) == [t EXCEPT !.pc = "done"]

\* The first position of cands (pairs <<enabled, pc>>) that is enabled.
FirstPc(cands) == cands[Min({i \in 1..Len(cands) : cands[i][1]})][2]
After(cands, k) == FirstPc(SubSeq(cands, k + 1, Len(cands)))

Log(t, op, chat, thread, id, res) ==
  [t EXCEPT !.calls = Append(@, [op |-> op, chat |-> chat, thread |-> thread,
                                 id |-> id, res |-> res])]

\* ------------------------------------------------------------ exceptions
\* TelegramForbiddenError, TelegramBadRequest (by message), any other.
IsBadRequest(e) == e \in {"BadRequest", "ThreadNotFound", "NoRights"}

\* Handlers whose first argument is a CallbackQuery, not a Message.
CallbackHandlers == {"user_btn_handler", "admin_quick_reply_handler"}

\* A wrapper that reports nothing to the admins.
RaiseSilent(t, e) == Done([t EXCEPT !.exc = e])

\* informing.handle_error: the except clauses, entered with exception e.
\* report_user_ban reads msg.message_thread_id and report_cant_create_topic
\* reads msg.chat, which a CallbackQuery does not have.
Raise(t, e) ==
  LET t1 == [t EXCEPT !.exc = e]
  IN CASE e = "Forbidden" ->
            IF t.h \in CallbackHandlers THEN Done([t1 EXCEPT !.escaped = TRUE])
            ELSE IF t.h = "admin_message" THEN Goto(t1, "rub_get")
            ELSE Done(t1)
       [] IsBadRequest(e) ->
            IF e = "NoRights"
            THEN IF t.h \in CallbackHandlers THEN Done([t1 EXCEPT !.escaped = TRUE])
                 ELSE Goto(t1, "rct_send")
            ELSE Done(t1)
       [] OTHER -> Done([t1 EXCEPT !.logged = TRUE])

\* A failed gateway call op of task t: logged in the call log, raised.
Fail(w, t, op, chat, thread, id, res) == R(w, Raise(Log(t, op, chat, thread, id, res), res))

\* A test that reads the bot-message window for every message.
SfdActiveBotVar(msg, chat_id) == msg # NoMsg /\ cfg.destruct_bot # 0

\* ------------------------------------------------- utils.save_for_destruction
SfdActive(msg, chat_id) ==
  /\ msg # NoMsg
  /\ IF chat_id # None THEN cfg.destruct_bot # 0
     ELSE IF msg.is_bot THEN cfg.destruct_bot # 0 ELSE cfg.destruct_user # 0

Sfd(w, msg, chat_id) ==
  IF SfdActive(msg, chat_id)
  THEN [w EXCEPT !.msgtodel = MsgToDelAdd(@, msg, chat_id, w.pm_seq).tbl]
  ELSE w

\* ----------------------------------------------------------------- gateway
\* bot.send_message(user.id, ...): the message sent, and the world after it.
NewPm(w, u) ==
  [chat |-> u, message_id |-> w.pm_seq + 1, date |-> w.pm_seq + 1, is_bot |-> TRUE]
BumpPm(w) == [w EXCEPT !.pm_seq = @ + 1]

\* A call that names a thread of the admin group: the gateway answers
\* 'thread not found' when the thread is not alive, else with o.
InThread(w, thread, o) == IF thread \notin w.topics THEN "ThreadNotFound" ELSE o

\* -------------------------------------- topics.create_user_topic, _new_topic
\* bot.create_forum_topic, then the user info (bot.get_chat, send_message
\* and the quick-reply keyboard) posted into the new thread.
CreateTopicStep(w, t, o) ==
  CASE t.pc = "ct_create" ->
        IF o = "ok"
        THEN LET th == w.topic_seq + 1
             IN R([w EXCEPT !.topic_seq = th, !.topics = @ \cup {th}],
                  Goto(Log([t EXCEPT !.thread_id = th], "create_topic", GroupId, th, 0, o),
                       "ct_intro"))
        ELSE Fail(w, t, "create_topic", GroupId, None, 0, o)
    [] t.pc = "ct_intro" ->
        IF o = "ok"
        THEN R(w, Goto(Log(t, "intro", GroupId, t.thread_id, 0, o), t.ret))
        ELSE Fail(w, t, "intro", GroupId, t.thread_id, 0, o)

\* ------------------------------------------------- handlers.user_message
UserMsg(t) == [chat |-> t.u, message_id |-> t.mid, date |-> t.date, is_bot |-> FALSE]

\* A gate branch that counts every gate-blocked message as a new user.
GateChainCountsAll(t) ==
  << <<~Found(t.tguser), "um_gate_add">>, <<TRUE, "um_gate_stat">>,
     <<SfdActive(UserMsg(t), None), "um_gate_sfd1">>,
     <<SfdActive(t.sent, None), "um_gate_sfd2">>, <<TRUE, "done">> >>

\* The calls of the gate branch after the prompt is sent, each with the
\* condition under which it suspends.
GateChain(t) ==
  << <<~Found(t.tguser), "um_gate_add">>, <<t.new_user, "um_gate_stat">>,
     <<SfdActive(UserMsg(t), None), "um_gate_sfd1">>,
     <<SfdActive(t.sent, None), "um_gate_sfd2">>, <<TRUE, "done">> >>

\* A forward that is never followed by the welcome.
AfterForwardNoWelcome(t) == "um_update"

\* After the forward: the welcome is sent unless first_replied.
AfterForward(t) ==
  IF t.tguser.first_replied \/ ~FirstReply THEN "um_update" ELSE "um_welcome"

\* save_user_message(msg) and save_for_destruction(msg, bot), lines 142-143.
TailChain(t) ==
  << <<TRUE, "um_stat">>, <<SfdActive(UserMsg(t), None), "um_sfd">>, <<TRUE, "done">> >>

\* A ban test that lets every user through.
BannedIgnored(tg) == FALSE

\* if tguser and tguser.banned (line 91).
Banned(tg) == Found(tg) /\ tg.banned

\* A write after the forward that keeps the thread the record was bound to.
UpdateKwOldThread(t) ==
  [last_user_msg_at |-> t.date, thread_id |-> t.tguser.thread_id, first_replied |-> TRUE]

\* A write after the forward without user_msg: last_user_msg_at is kept.
UpdateKwNoStamp(t) == [thread_id |-> t.thread_id, first_replied |-> TRUE]

\* The single write after the forward (lines 126-132): thread_id and
\* last_user_msg_at, and first_replied when the welcome was due.
UpdateKw(t) ==
  IF t.tguser.first_replied
  THEN [last_user_msg_at |-> t.date, thread_id |-> t.thread_id]
  ELSE [last_user_msg_at |-> t.date, thread_id |-> t.thread_id, first_replied |-> TRUE]

UserMessageStep(w, t, o) ==
  CASE t.pc = "um_get" ->
        LET tg == TgUserGet(w.tgusers, t.u, None)
            t1 == [t EXCEPT !.tguser = tg]
        IN IF Banned(tg)
           THEN R(w, Goto(t1, FirstPc(<< <<SfdActive(UserMsg(t), None), "um_ban_sfd">>,
                                         <<TRUE, "done">> >>)))
           ELSE IF ~(Found(tg) /\ tg.can_message)
           THEN R(w, Goto([t1 EXCEPT !.new_user = ~Found(tg)], "um_gate_send"))
           ELSE IF Found(tg)
           THEN IF tg.thread_id # None
                THEN R(w, Goto([t1 EXCEPT !.thread_id = tg.thread_id], "um_fwd"))
                ELSE R(w, [t1 EXCEPT !.pc = "ct_create", !.ret = "um_fwd2"])
           ELSE R(w, [t1 EXCEPT !.pc = "ct_create", !.ret = "um_new_welcome"])
    [] t.pc = "um_ban_sfd" -> R(Sfd(w, UserMsg(t), None), Done(t))
    [] t.pc = "um_gate_send" ->
        IF o = "ok"
        THEN LET t1 == Log([t EXCEPT !.sent = NewPm(w, t.u)], "send", t.u, None,
                           w.pm_seq + 1, o)
             IN R(BumpPm(w), Goto(t1, IF Menu THEN "um_gate_kb" ELSE FirstPc(GateChain(t1))))
        ELSE Fail(w, t, "send", t.u, None, 0, o)
    [] t.pc = "um_gate_kb" ->
        IF o = "ok"
        THEN R(w, Goto(Log(t, "edit_kb", t.u, None, t.sent.message_id, o),
                       FirstPc(GateChain(t))))
        ELSE Fail(w, t, "edit_kb", t.u, None, t.sent.message_id, o)
    [] t.pc = "um_gate_add" ->
        LET tbl == TgUserAdd(w.tgusers, t.u, t.date, None, FALSE, FALSE)
        IN R([w EXCEPT !.tgusers = tbl],
             Goto([t EXCEPT !.tguser = TgUserGet(tbl, t.u, None)], After(GateChain(t), 1)))
    [] t.pc = "um_gate_stat" ->
        R([w EXCEPT !.actionstats = ActionAdd(@, "new_user", today)],
          Goto(t, After(GateChain(t), 2)))
    [] t.pc = "um_gate_sfd1" ->
        R(Sfd(w, UserMsg(t), None), Goto(t, After(GateChain(t), 3)))
    [] t.pc = "um_gate_sfd2" -> R(Sfd(w, t.sent, None), Done(t))
    [] t.pc = "um_fwd" ->
        LET res == InThread(w, t.thread_id, o)
            t1 == Log(t, "forward", GroupId, t.thread_id, t.mid, res)
        IN IF res = "ok" THEN R(w, Goto(t1, AfterForward(t1)))
           ELSE IF IsBadRequest(res)
           THEN IF res = "ThreadNotFound"
                THEN R(w, [t1 EXCEPT !.pc = "ct_create", !.ret = "um_fwd2"])
                ELSE R(w, Goto(t1, AfterForward(t1)))
           ELSE R(w, Raise(t1, res))
    [] t.pc = "um_fwd2" ->
        LET res == InThread(w, t.thread_id, o)
            t1 == Log(t, "forward", GroupId, t.thread_id, t.mid, res)
        IN IF res = "ok" THEN R(w, Goto(t1, AfterForward(t1)))
           ELSE R(w, Raise(t1, res))
    [] t.pc = "um_welcome" ->
        IF o = "ok"
        THEN LET t1 == Log([t EXCEPT !.sent = NewPm(w, t.u)], "welcome", t.u, None,
                           w.pm_seq + 1, o)
             IN R(BumpPm(w), Goto(t1, FirstPc(<< <<SfdActive(t1.sent, None), "um_welcome_sfd">>,
                                                 <<TRUE, "um_update">> >>)))
        ELSE Fail(w, t, "welcome", t.u, None, 0, o)
    [] t.pc = "um_welcome_sfd" -> R(Sfd(w, t.sent, None), Goto(t, "um_update"))
    [] t.pc = "um_update" ->
        R([w EXCEPT !.tgusers = TgUserUpdate(@, t.u, UpdateKw(t))], Goto(t, "um_stat"))
    [] t.pc = "um_new_welcome" ->
        IF ~FirstReply THEN R(w, Goto(t, "um_new_add"))
        ELSE IF o = "ok"
        THEN LET t1 == Log([t EXCEPT !.sent = NewPm(w, t.u)], "welcome", t.u, None,
                           w.pm_seq + 1, o)
             IN R(BumpPm(w), Goto(t1, FirstPc(<< <<SfdActive(t1.sent, None), "um_new_welcome_sfd">>,
                                                 <<TRUE, "um_new_add">> >>)))
        ELSE Fail(w, t, "welcome", t.u, None, 0, o)
    [] t.pc = "um_new_welcome_sfd" -> R(Sfd(w, t.sent, None), Goto(t, "um_new_add"))
    [] t.pc = "um_new_add" ->
        LET tbl == TgUserAdd(w.tgusers, t.u, t.date, t.thread_id, TRUE, TRUE)
        IN R([w EXCEPT !.tgusers = tbl],
             Goto([t EXCEPT !.tguser = TgUserGet(tbl, t.u, None)], "um_new_fwd"))
    [] t.pc = "um_new_fwd" ->
        LET res == InThread(w, t.thread_id, o)
            t1 == Log(t, "forward", GroupId, t.thread_id, t.mid, res)
        IN IF res = "ok" THEN R(w, Goto(t1, "um_stat")) ELSE R(w, Raise(t1, res))
    [] t.pc = "um_stat" ->
        R([w EXCEPT !.actionstats = ActionAdd(@, "user_message", today)],
          Goto(t, After(TailChain(t), 1)))
    [] t.pc = "um_sfd" -> R(Sfd(w, UserMsg(t), None), Done(t))

\* ----------------------------------------------------- handlers.cmd_start
StartChain(t) ==
  << <<t.new_user, "cs_stat">>, <<SfdActive(UserMsg(t), None), "cs_sfd1">>,
     <<SfdActive(t.sent, None), "cs_sfd2">>, <<TRUE, "done">> >>

CmdStartStep(w, t, o) ==
  CASE t.pc = "cs_send" ->
        IF o = "ok"
        THEN LET t1 == Log([t EXCEPT !.sent = NewPm(w, t.u)], "send", t.u, None,
                           w.pm_seq + 1, o)
             IN R(BumpPm(w), Goto(t1, IF Menu THEN "cs_kb" ELSE "cs_get"))
        ELSE Fail(w, t, "send", t.u, None, 0, o)
    [] t.pc = "cs_kb" ->
        IF o = "ok"
        THEN R(w, Goto(Log(t, "edit_kb", t.u, None, t.sent.message_id, o), "cs_get"))
        ELSE Fail(w, t, "edit_kb", t.u, None, t.sent.message_id, o)
    [] t.pc = "cs_get" ->
        LET tg == TgUserGet(w.tgusers, t.u, None)
            t1 == [t EXCEPT !.tguser = tg]
        IN IF ~Found(tg)
           THEN R(w, [t1 EXCEPT !.pc = "ct_create", !.ret = "cs_add"])
           ELSE R(w, Goto(t1, FirstPc(StartChain(t1))))
    [] t.pc = "cs_add" ->
        LET tbl == TgUserAdd(w.tgusers, t.u, t.date, t.thread_id, FALSE, FALSE)
            t1 == [t EXCEPT !.tguser = TgUserGet(tbl, t.u, None), !.new_user = TRUE]
        IN R([w EXCEPT !.tgusers = tbl], Goto(t1, FirstPc(StartChain(t1))))
    [] t.pc = "cs_stat" ->
        R([w EXCEPT !.actionstats = ActionAdd(@, "new_user", today)],
          Goto(t, After(StartChain(t), 1)))
    [] t.pc = "cs_sfd1" -> R(Sfd(w, UserMsg(t), None), Goto(t, After(StartChain(t), 2)))
    [] t.pc = "cs_sfd2" -> R(Sfd(w, t.sent, None), Done(t))

\* ------------------------------------------------- buttons.user_btn_handler
\* The buttons of the menu the model presses: an answer button marked
\* start_chat (the contact action), a plain answer button, a subject button.
Buttons == {"start_chat", "answer", "subject"}
\* menuitem['subject'] of the subject button.
NewSubj == "s1"

BtnChain(t) == << <<SfdActive(t.sent, None), "ub_sfd">>, <<TRUE, "ub_cb">> >>

\* A contact action that resets the welcome and leaves the gate closed.
ContactKwGateClosed(t) == [first_replied |-> FALSE]

\* The write of the contact action on an existing record (line 70).
ContactKw(t) == [can_message |-> TRUE, first_replied |-> FALSE]

UserBtnStep(w, t, o) ==
  CASE t.pc = "ub_get" ->
        LET tg == TgUserGet(w.tgusers, t.u, None)
        IN R(w, Goto([t EXCEPT !.tguser = tg], IF Found(tg) THEN "ub_upd" ELSE "ub_add"))
    [] t.pc = "ub_upd" ->
        R([w EXCEPT !.tgusers = TgUserUpdate(@, t.u, ContactKw(t))], Goto(t, "ub_unlocked"))
    [] t.pc = "ub_add" ->
        LET tbl == TgUserAdd(w.tgusers, t.u, t.date, None, FALSE, TRUE)
        IN R([w EXCEPT !.tgusers = tbl],
             Goto([t EXCEPT !.tguser = TgUserGet(tbl, t.u, None)], "ub_unlocked"))
    [] t.pc = "ub_unlocked" ->
        IF o = "ok"
        THEN R(BumpPm(w), Goto(Log([t EXCEPT !.sent = NewPm(w, t.u)], "unlocked", t.u, None,
                                   w.pm_seq + 1, o), "ub_answer"))
        ELSE Fail(w, t, "unlocked", t.u, None, 0, o)
    [] t.pc = "ub_answer" ->
        IF o = "ok"
        THEN LET t1 == Log(t, "edit_answer", t.u, None, 0, o)
             IN R(w, Goto(t1, FirstPc(BtnChain(t1))))
        ELSE Fail(w, t, "edit_answer", t.u, None, 0, o)
    [] t.pc = "sb_send" ->
        IF o = "ok"
        THEN R(BumpPm(w), Goto(Log([t EXCEPT !.sent = NewPm(w, t.u)], "send", t.u, None,
                                   w.pm_seq + 1, o), "sb_get"))
        ELSE Fail(w, t, "send", t.u, None, 0, o)
    [] t.pc = "sb_get" ->
        LET tg == TgUserGet(w.tgusers, t.u, None)
            t1 == [t EXCEPT !.tguser = tg]
        IN IF Found(tg) /\ tg.thread_id # None /\ tg.subject # NewSubj
           THEN R(w, Goto(t1, "sb_upd"))
           ELSE R(w, Goto(t1, FirstPc(BtnChain(t1))))
    [] t.pc = "sb_upd" ->
        R([w EXCEPT !.tgusers = TgUserUpdate(@, t.u, [subject |-> NewSubj])],
          Goto(t, "sb_notify"))
    [] t.pc = "sb_notify" ->
        LET res == InThread(w, t.tguser.thread_id, o)
        IN IF res = "ok"
           THEN R(w, Goto(Log(t, "notify", GroupId, t.tguser.thread_id, 0, res),
                          FirstPc(BtnChain(t))))
           ELSE Fail(w, t, "notify", GroupId, t.tguser.thread_id, 0, res)
    [] t.pc = "ub_sfd" -> R(Sfd(w, t.sent, None), Goto(t, "ub_cb"))
    [] t.pc = "ub_cb" ->
        IF o = "ok" THEN R(w, Done(Log(t, "call_answer", t.u, None, 0, o)))
        ELSE Fail(w, t, "call_answer", t.u, None, 0, o)

\* Reports that post nothing.
ReportStepSilent(w, t, o) == R(w, Done(t))

\* ---------------- informing.report_user_ban, report_cant_create_topic
\* A failure of these runs in the except clause of handle_error: it
\* leaves the wrapper.
ReportStep(w, t, o) ==
  CASE t.pc = "rub_get" ->
        IF Found(TgUserGet(w.tgusers, None, t.th))
        THEN R(w, Goto(t, "rub_send")) ELSE R(w, Done(t))
    [] t.pc = "rub_send" ->
        LET res == InThread(w, t.th, o)
            t1 == Log(t, "notice_ban", GroupId, t.th, 0, res)
        IN R(w, Done(IF res = "ok" THEN t1 ELSE [t1 EXCEPT !.escaped = TRUE]))
    [] t.pc = "rct_send" ->
        LET t1 == Log(t, "notice_rights", GroupId, None, 0, o)
        IN R(w, Done(IF o = "ok" THEN t1 ELSE [t1 EXCEPT !.escaped = TRUE]))

\* --------------------------------------------- gateway: the users' chats
\* msg.from_user.full_name or msg.from_user.username of admin a.
AdminName(a) == "adm"

\* The admin-originated message id of chat, when it is present there.
InChat(w, chat, id) == \E c \in w.userchat : c.chat = chat /\ c.id = id

\* msg.copy_to(chat) / bot.send_message(chat, answer): a new message in the
\* user's chat, showing version ver of admin message gid (0: a quick reply).
Deliver(w, chat, gid, ver) ==
  [w EXCEPT !.pm_seq = @ + 1,
            !.userchat = @ \cup {[chat |-> chat, id |-> w.pm_seq + 1, of |-> gid,
                                  ver |-> ver]}]

\* bot.edit_message_text / edit_message_caption on a present message.
EditInChat(w, chat, id, ver) ==
  [w EXCEPT !.userchat = {IF c.chat = chat /\ c.id = id THEN [c EXCEPT !.ver = ver] ELSE c
                          : c \in @}]

\* A deletion that leaves the message in the user's chat.
DeleteInChatKeeps(w, chat, id) == w

\* bot.delete_message in a user's chat, in the admin group.
DeleteInChat(w, chat, id) ==
  [w EXCEPT !.userchat = {c \in @ : ~(c.chat = chat /\ c.id = id)}]
DeleteInGroup(w, gid) == [w EXCEPT !.groupmsgs = {m \in @ : m.id # gid}]

\* The gateway rejects an edit or a delete of a message that is not there.
OnPresent(present, o) == IF present THEN o ELSE "BadRequest"

\* The version of admin message gid now shown in the group (0 when gone).
VerOf(w, gid) ==
  IF \E m \in w.groupmsgs : m.id = gid
  THEN (CHOOSE m \in w.groupmsgs : m.id = gid).ver ELSE 0

\* ------------------------------------------------- handlers.admin_message
AdminMessageStep(w, t, o) ==
  CASE t.pc = "am_get" ->
        LET tg == TgUserGet(w.tgusers, None, t.th)
        IN IF Found(tg) THEN R(w, Goto([t EXCEPT !.tguser = tg], "am_copy"))
           ELSE R(w, Done(t))
    [] t.pc = "am_copy" ->
        IF o = "ok"
        THEN R(Deliver(w, t.tguser.user_id, t.mid, VerOf(w, t.mid)),
               Goto(Log([t EXCEPT !.copied = w.pm_seq + 1], "copy", t.tguser.user_id,
                        None, w.pm_seq + 1, o), "am_bump"))
        ELSE Fail(w, t, "copy", t.tguser.user_id, None, 0, o)
    [] t.pc = "am_bump" ->
        R([w EXCEPT !.adminstats = AdminStatsBump(@, t.a, AdminName(t.a), "replies", today)],
          Goto(t, "am_mirror"))
    [] t.pc = "am_mirror" ->
        R([w EXCEPT !.msgmirror = MirrorAdd(@, GroupId, t.mid, t.tguser.user_id,
                                            t.copied, t.th)],
          IF cfg.destruct_bot # 0 THEN Goto(t, "am_sfd") ELSE Done(t))
    [] t.pc = "am_sfd" ->
        R(Sfd(w, [NoMsg EXCEPT !.message_id = t.copied], t.tguser.user_id), Done(t))

\* --------------------------------------- handlers._mirror_update_from_admin
\* A return after which the edit handler never counts the edit.
MuReturnUncounted(t, updated) ==
  IF t.h = "admin_sync_message" THEN Goto([t EXCEPT !.updated = updated], "as_answer")
  ELSE Done(t)

\* A return after which the edit handler counts every edit.
MuReturnCountsAll(t, updated) ==
  IF t.h = "admin_sync_message" THEN Goto([t EXCEPT !.updated = updated], "as_answer")
  ELSE Goto([t EXCEPT !.updated = TRUE], "ae_bump")

\* The return of _mirror_update_from_admin to its caller.
MuReturn(t, updated) ==
  IF t.h = "admin_sync_message" THEN Goto([t EXCEPT !.updated = updated], "as_answer")
  ELSE IF updated THEN Goto([t EXCEPT !.updated = TRUE], "ae_bump")
  ELSE Done(t)

\* The admin message pushed: the edited message, or the message a sync
\* command replies to.
MuMsg(t) == IF t.h = "admin_sync_message" THEN t.reply_to ELSE t.mid

MirrorUpdateStep(w, t, o) ==
  LET m == t.mapping
  IN CASE t.pc = "mu_edit" ->
          IF t.kind = "none" THEN R(w, MuReturn(t, FALSE))
          ELSE LET res == OnPresent(InChat(w, m.user_chat_id, m.user_msg_id), o)
                   t1 == Log(t, "edit", m.user_chat_id, None, m.user_msg_id, res)
               IN IF res = "ok"
                  THEN R(EditInChat(w, m.user_chat_id, m.user_msg_id, VerOf(w, MuMsg(t))),
                         MuReturn(t1, TRUE))
                  ELSE IF IsBadRequest(res) THEN R(w, Goto(t1, "mu_copy"))
                  ELSE R(w, Raise(t1, res))
      [] t.pc = "mu_copy" ->
          LET t1 == Log([t EXCEPT !.copied = IF o = "ok" THEN w.pm_seq + 1 ELSE 0], "copy",
                        m.user_chat_id, None, IF o = "ok" THEN w.pm_seq + 1 ELSE 0, o)
          IN IF o = "ok"
             THEN R(Deliver(w, m.user_chat_id, MuMsg(t), VerOf(w, MuMsg(t))),
                    Goto(t1, "mu_mirror"))
             ELSE IF IsBadRequest(o) THEN R(w, MuReturn(t1, FALSE))
             ELSE R(w, Raise(t1, o))
      [] t.pc = "mu_mirror" ->
          R([w EXCEPT !.msgmirror = MirrorAdd(@, m.admin_chat_id, m.admin_msg_id,
                                              m.user_chat_id, t.copied, m.thread_id)],
            Goto(t, "mu_del"))
      [] t.pc = "mu_del" ->
          LET res == OnPresent(InChat(w, m.user_chat_id, m.user_msg_id), o)
              t1 == Log(t, "delete", m.user_chat_id, None, m.user_msg_id, res)
          IN IF res = "ok"
             THEN R(DeleteInChat(w, m.user_chat_id, m.user_msg_id), MuReturn(t1, TRUE))
             ELSE IF IsBadRequest(res) THEN R(w, MuReturn(t1, TRUE))
             ELSE R(w, Raise(t1, res))

\* ------------------------- handlers.admin_message_edit, admin_sync_message
\* msg.answer(...) in the admin group: one gateway call, then the end.
Answer(w, t, o, op) ==
  LET res == InThread(w, t.th, o)
      t1 == Log(t, op, GroupId, t.th, 0, res)
  IN IF res = "ok" THEN R(w, Done(t1)) ELSE R(w, Raise(t1, res))

AdminEditStep(w, t, o) ==
  CASE t.pc = "ae_get" ->
        LET m == MirrorGet(w.msgmirror, GroupId, t.mid)
        IN IF Found(m) THEN R(w, Goto([t EXCEPT !.mapping = m], "mu_edit"))
           ELSE R(w, Done(t))
    [] t.pc = "ae_bump" ->
        R([w EXCEPT !.adminstats = AdminStatsBump(@, t.a, AdminName(t.a), "edits", today)],
          Done(t))

AdminSyncStep(w, t, o) ==
  CASE t.pc = "as_usage" -> Answer(w, t, o, "usage")
    [] t.pc = "as_get" ->
        LET m == MirrorGet(w.msgmirror, GroupId, t.reply_to)
        IN IF Found(m) THEN R(w, Goto([t EXCEPT !.mapping = m], "mu_edit"))
           ELSE R(w, Goto(t, "as_notfound"))
    [] t.pc = "as_notfound" -> Answer(w, t, o, "not_found")
    [] t.pc = "as_answer" -> Answer(w, t, o, IF t.updated THEN "synced" ELSE "not_synced")

\* ------------------------------------------ handlers.admin_delete_message
\* One deletion step: a bad request is passed over, any other failure is
\* raised.
DelResultRaises(w1, w, t1, res, next) ==
  IF res = "ok" THEN R(w1, Goto(t1, next)) ELSE R(w, Raise(t1, res))

DelResult(w1, w, t1, res, next) ==
  IF res = "ok" THEN R(w1, Goto(t1, next))
  ELSE IF IsBadRequest(res) THEN R(w, Goto(t1, next))
  ELSE R(w, Raise(t1, res))

AdminDeleteStep(w, t, o) ==
  LET m == t.mapping
  IN CASE t.pc = "ad_usage" -> Answer(w, t, o, "usage")
      [] t.pc = "ad_get" ->
          LET g == MirrorGet(w.msgmirror, GroupId, t.reply_to)
          IN IF Found(g) THEN R(w, Goto([t EXCEPT !.mapping = g], "ad_del_user"))
             ELSE R(w, Goto(t, "ad_notfound"))
      [] t.pc = "ad_notfound" -> Answer(w, t, o, "not_found")
      [] t.pc = "ad_del_user" ->
          LET res == OnPresent(InChat(w, m.user_chat_id, m.user_msg_id), o)
          IN DelResult(DeleteInChat(w, m.user_chat_id, m.user_msg_id), w,
                       Log(t, "delete", m.user_chat_id, None, m.user_msg_id, res), res,
                       "ad_del_admin")
      [] t.pc = "ad_del_admin" ->
          LET res == OnPresent(\E g \in w.groupmsgs : g.id = t.reply_to, o)
          IN DelResult(DeleteInGroup(w, t.reply_to), w,
                       Log(t, "delete", GroupId, t.th, t.reply_to, res), res, "ad_mirror")
      [] t.pc = "ad_mirror" ->
          R([w EXCEPT !.msgmirror = MirrorDelete(@, GroupId, t.reply_to)],
            Goto(t, "ad_bump"))
      [] t.pc = "ad_bump" ->
          R([w EXCEPT !.adminstats = AdminStatsBump(@, t.a, AdminName(t.a), "deletes", today)],
            Goto(t, "ad_del_cmd"))
      [] t.pc = "ad_del_cmd" ->
          LET t1 == Log(t, "delete_cmd", GroupId, t.th, 0, o)
          IN IF o = "ok" \/ IsBadRequest(o) THEN R(w, Done(t1)) ELSE R(w, Raise(t1, o))

\* ------------------------------- handlers.admin_ban_user, admin_unban_user
AdminBanStep(w, t, o) ==
  CASE t.pc = "ab_usage" -> Answer(w, t, o, "usage")
    [] t.pc = "ab_get" ->
        LET m == MirrorGet(w.msgmirror, GroupId, t.reply_to)
        IN IF Found(m) THEN R(w, Goto([t EXCEPT !.mapping = m], "ab_upd"))
           ELSE R(w, Goto(t, "ab_notfound"))
    [] t.pc = "ab_notfound" -> Answer(w, t, o, "not_found")
    [] t.pc = "ab_upd" ->
        R([w EXCEPT !.tgusers = TgUserUpdate(@, t.mapping.user_chat_id,
                                             [banned |-> (t.h = "admin_ban_user")])],
          Goto(t, "ab_answer"))
    [] t.pc = "ab_answer" -> Answer(w, t, o, "banned")

\* ------------------------------------ handlers.admin_quick_reply_handler
QuickReplyStep(w, t, o) ==
  CASE t.pc = "qr_get" ->
        LET tg == TgUserGet(w.tgusers, None, t.th)
        IN R(w, Goto([t EXCEPT !.tguser = tg], IF Found(tg) THEN "qr_send" ELSE "qr_cb"))
    [] t.pc = "qr_send" ->
        IF o = "ok"
        THEN R(Deliver(w, t.tguser.user_id, 0, 0),
               Goto(Log([t EXCEPT !.copied = w.pm_seq + 1], "quick", t.tguser.user_id, None,
                        w.pm_seq + 1, o), "qr_echo"))
        ELSE Fail(w, t, "quick", t.tguser.user_id, None, 0, o)
    [] t.pc = "qr_echo" ->
        LET res == InThread(w, t.th, o)
            t1 == Log(t, "echo", GroupId, t.th, 0, res)
        IN IF res = "ok"
           THEN R(w, Goto(t1, IF cfg.destruct_bot # 0 THEN "qr_sfd" ELSE "qr_cb"))
           ELSE R(w, Raise(t1, res))
    [] t.pc = "qr_sfd" ->
        R(Sfd(w, [NoMsg EXCEPT !.message_id = t.copied], t.tguser.user_id), Goto(t, "qr_cb"))
    [] t.pc = "qr_cb" ->
        IF o = "ok" THEN R(w, Done(Log(t, "call_answer", GroupId, t.th, 0, o)))
        ELSE Fail(w, t, "call_answer", GroupId, t.th, 0, o)

\* ------------------------------------------------------------- one step
CtPcs == {"ct_create", "ct_intro"}
RepPcs == {"rub_get", "rub_send", "rct_send"}
MuPcs == {"mu_edit", "mu_copy", "mu_mirror", "mu_del"}

\* The positions at which the task awaits a gateway call.
GatewayPcs ==
  {"ct_create", "ct_intro", "um_gate_send", "um_gate_kb", "um_fwd", "um_fwd2",
   "um_welcome", "um_new_welcome", "um_new_fwd", "cs_send", "cs_kb", "ub_unlocked",
   "ub_answer", "sb_send", "sb_notify", "ub_cb", "rub_send", "rct_send", "am_copy",
   "mu_edit", "mu_copy", "mu_del", "as_usage", "as_notfound", "as_answer", "ad_usage",
   "ad_notfound", "ad_del_user", "ad_del_admin", "ad_del_cmd", "ab_usage",
   "ab_notfound", "ab_answer", "qr_send", "qr_echo", "qr_cb"}

\* The failures a gateway call can answer with: forbidden / blocked by the
\* recipient, a bad request, any other error; creating a topic can also be
\* refused with 'not enough rights to create a topic'.
FaultKinds == {"Forbidden", "BadRequest", "Error", "NoRights"}
OutcomesAt(t) ==
  IF t.pc \notin GatewayPcs THEN {"ok"}
  ELSE IF t.pc = "ct_create" THEN {"ok"} \cup FaultKinds
  ELSE {"ok"} \cup (FaultKinds \ {"NoRights"})

\* One step of task t in world w, the awaited gateway call answering o.
HandlerStep(w, t, o) ==
  CASE t.pc \in CtPcs -> CreateTopicStep(w, t, o)
    [] t.pc \in RepPcs -> ReportStep(w, t, o)
    [] t.pc \in MuPcs -> MirrorUpdateStep(w, t, o)
    [] t.h = "user_message" -> UserMessageStep(w, t, o)
    [] t.h = "cmd_start" -> CmdStartStep(w, t, o)
    [] t.h = "user_btn_handler" -> UserBtnStep(w, t, o)
    [] t.h = "admin_message" -> AdminMessageStep(w, t, o)
    [] t.h = "admin_message_edit" -> AdminEditStep(w, t, o)
    [] t.h = "admin_sync_message" -> AdminSyncStep(w, t, o)
    [] t.h = "admin_delete_message" -> AdminDeleteStep(w, t, o)
    [] t.h \in {"admin_ban_user", "admin_unban_user"} -> AdminBanStep(w, t, o)
    [] t.h = "admin_quick_reply_handler" -> QuickReplyStep(w, t, o)

\* The gateway's behaviour during one run: the set f of <<k, e>>, the k-th
\* gateway call of the run fails with e; every other call is accepted.
NoFault == {}
FaultSets == {NoFault} \cup {{<<k, e>>} : k \in 1..MaxCalls, e \in FaultKinds}

OutcomeOf(f, t) ==
  LET hit == {p \in f : p[1] = Len(t.calls) + 1 /\ p[2] \in OutcomesAt(t)}
  IN IF hit = {} THEN "ok" ELSE (CHOOSE p \in hit : TRUE)[2]

\* A handler run to its end with no other handler in between.
RECURSIVE Run(_, _, _)
Run(w, t, f) ==
  IF ~Running(t) THEN R(w, t)
  ELSE CHOOSE q \in {Run(r.w, r.t, f) : r \in {HandlerStep(w, t, OutcomeOf(f, t))}} : TRUE

\* ------------------------------------------------------------------ actions
SetWorld(w) ==
  /\ tgusers' = w.tgusers
  /\ actionstats' = w.actionstats
  /\ adminstats' = w.adminstats
  /\ msgtodel' = w.msgtodel
  /\ msgmirror' = w.msgmirror
  /\ topics' = w.topics
  /\ topic_seq' = w.topic_seq
  /\ pm_seq' = w.pm_seq
  /\ userchat' = w.userchat
  /\ groupmsgs' = w.groupmsgs

\* actionstats: the count of name on day date (0 without a row).
ActionCount(tbl, name, date) ==
  LET rows == {r \in tbl : r.name = name /\ r.date = date}
  IN IF rows = {} THEN 0 ELSE (CHOOSE r \in rows : TRUE).count

\* No call of the run failed.
CleanRun(t) == t.exc = "none" /\ \A k \in 1..Len(t.calls) : t.calls[k].res = "ok"

\* The end-to-end scenario: user 1 writes, taps the contact action, writes
\* again, admin 1 replies in the user's thread, edits the reply, deletes it.
ScnOff == [on |-> FALSE, k |-> 0]
ScnEvent(t) ==
  CASE t.h = "user_message" /\ t.u = 1 /\ scn.k \in {0, 2} -> scn.k + 1
    [] t.h = "user_btn_handler" /\ t.u = 1 /\ t.btn = "start_chat" /\ scn.k = 1 -> 2
    [] t.h = "admin_message" /\ t.a = 1 /\ scn.k = 3
       /\ t.th = TgUserGet(tgusers, 1, None).thread_id -> 4
    [] t.h = "admin_message_edit" /\ t.a = 1 /\ t.kind = "text" /\ scn.k = 4 -> 5
    [] t.h = "admin_delete_message" /\ t.a = 1 /\ scn.k = 5 /\ t.reply_to # 0 -> 6
    [] OTHER -> 0

\* Every failure of f was answered to a call of the finished run t.
FaultsHit(t, f) == \A p \in f : p[1] <= Len(t.calls) /\ t.calls[p[1]].res = p[2]

\* A handler of event t0 run in slot 1 to its end from world w0 under
\* gateway behaviour f, with no step of another handler in between, when
\* fewer than n events were delivered; slot 1 keeps the finished run until
\* the wrapper returns to the dispatcher.  The run stays within the id
\* bounds.
Handle(w0, t0, f, n) ==
  /\ tasks[1].pc = "idle"
  /\ nev < n
  /\ \E r \in {Run(w0, [t0 EXCEPT !.pre = w0], f)}, k \in {ScnEvent(t0)} :
     /\ FaultsHit(r.t, f)
     /\ nev' = nev + 1
     /\ r.w.pm_seq <= MaxPm
     /\ r.w.topic_seq <= MaxThreads
     /\ SetWorld(r.w)
     /\ tasks' = [tasks EXCEPT ![1] = r.t]
     /\ nu' = IF t0.u \in Users
              THEN [nu EXCEPT ![t0.u] = @ + ActionCount(r.w.actionstats, "new_user", today)
                                          - ActionCount(w0.actionstats, "new_user", today)]
              ELSE nu
     /\ scn' = IF scn.on /\ k # 0 /\ CleanRun(r.t) THEN [on |-> TRUE, k |-> k] ELSE ScnOff
     /\ UNCHANGED <<added, schema, sweep, cfg, today, dblock>>

\* The wrapper of the finished run of slot i returns to the dispatcher.
Return(i) ==
  /\ tasks[i].pc = "done"
  /\ tasks' = [tasks EXCEPT ![i] = IdleTask]
  /\ UNCHANGED <<added, schema, sweep, tgusers, actionstats, adminstats, msgtodel, msgmirror, topics, topic_seq,
                 pm_seq, userchat, groupmsgs, group_seq, cfg, today, dblock, nev, nu, scn>>

\* A private message of user u.
RecvUserMessage(u, f, n) ==
  /\ Handle([World EXCEPT !.pm_seq = @ + 1],
            NewTask("user_message", "um_get", u, 0, 0, pm_seq + 1, 0, "", ""), f, n)
  /\ UNCHANGED group_seq

\* /start of user u.
RecvStart(u, f, n) ==
  /\ Handle([World EXCEPT !.pm_seq = @ + 1],
            NewTask("cmd_start", "cs_send", u, 0, 0, pm_seq + 1, 0, "", ""), f, n)
  /\ UNCHANGED group_seq

\* User u presses button b of the menu.
PressButton(u, b, f, n) ==
  /\ Handle(World, NewTask("user_btn_handler", IF b = "subject" THEN "sb_send" ELSE
                           IF b = "start_chat" THEN "ub_get" ELSE "ub_answer",
                           u, 0, 0, 0, 0, b, ""), f, n)
  /\ UNCHANGED group_seq

\* Admin a posts a message in thread th of the admin group.
AdminThreads == topics \cup {SysThread}
AdminPost(a, th, f, n) ==
  /\ group_seq < MaxGroupMsgs
  /\ group_seq' = group_seq + 1
  /\ Handle([World EXCEPT !.groupmsgs = @ \cup {[id |-> group_seq + 1, thread |-> th,
                                                  ver |-> 0]}],
            NewTask("admin_message", "am_get", 0, a, th, group_seq + 1, 0, "", ""), f, n)

\* Admin a edits message m of the admin group; kind tells whether the
\* edited message has a text or caption.
EditKinds == {"text", "none"}
AdminEdit(a, m, kind, f, n) ==
  /\ m.ver < MaxEdits
  /\ Handle([World EXCEPT !.groupmsgs = (@ \ {m}) \cup {[m EXCEPT !.ver = @ + 1]}],
            NewTask("admin_message_edit", "ae_get", 0, a, m.thread, m.id, 0, "", kind), f, n)
  /\ UNCHANGED group_seq

\* Admin a sends command cmd in thread th, as a reply to message reply_to
\* (0: not a reply).
Commands == {"sync", "del", "ban", "unban"}
CmdHandler(cmd) ==
  CASE cmd = "sync" -> "admin_sync_message"
    [] cmd = "del" -> "admin_delete_message"
    [] cmd = "ban" -> "admin_ban_user"
    [] cmd = "unban" -> "admin_unban_user"
CmdPc(cmd, reply_to) ==
  LET p == CASE cmd = "sync" -> "as" [] cmd = "del" -> "ad" [] OTHER -> "ab"
  IN IF reply_to = 0
     THEN (CASE p = "as" -> "as_usage" [] p = "ad" -> "ad_usage" [] OTHER -> "ab_usage")
     ELSE (CASE p = "as" -> "as_get" [] p = "ad" -> "ad_get" [] OTHER -> "ab_get")
AdminCommand(a, cmd, th, reply_to, f, n) ==
  /\ reply_to # 0 => \E m \in groupmsgs : m.id = reply_to /\ m.thread = th
  /\ Handle(World, NewTask(CmdHandler(cmd), CmdPc(cmd, reply_to), 0, a, th, 0, reply_to,
                           "", "text"), f, n)
  /\ UNCHANGED group_seq

\* Admin a presses a quick-reply button in thread th.
QuickReply(a, th, f, n) ==
  /\ Handle(World, NewTask("admin_quick_reply_handler", "qr_get", 0, a, th, 0, 0,
                           "quick", ""), f, n)
  /\ UNCHANGED group_seq

\* A topic of the admin group is deleted by its admins.
TopicDeleted(th, n) ==
  /\ \A i \in Slots : tasks[i].pc = "idle"
  /\ th \in topics
  /\ nev < n
  /\ nev' = nev + 1
  /\ topics' = topics \ {th}
  /\ scn' = ScnOff
  /\ UNCHANGED <<added, schema, sweep, tgusers, actionstats, adminstats, msgtodel, msgmirror, topic_seq, pm_seq,
                 userchat, groupmsgs, group_seq, cfg, today, dblock, tasks, nu>>

\* The database of a new install: tgusers has the can_message column and
\* the mirror table is not created yet; no repository has run its
\* first-access check (_schema_checked, _table_ready).  An older install
\* differs in lacking the column.
FreshSchema == [can_message |-> TRUE, schema_checked |-> FALSE, alters |-> 0,
                mirror_table |-> FALSE, mirror_index |-> FALSE, table_ready |-> FALSE]

\* No destruct_messages run, no bots given to it.
NoSweep == [bots |-> <<>>, pc |-> "idle", b |-> 0, var |-> 0, msgs |-> <<>>, k |-> 0,
            error_reported |-> FALSE, destructed |-> 0, exc |-> "none",
            fetched |-> {}, attempts |-> {}, errors |-> <<>>, logs |-> <<>>]

InitTables ==
  /\ tgusers = {} /\ actionstats = {} /\ adminstats = {} /\ msgtodel = {}
  /\ msgmirror = {}
  /\ topics = {} /\ topic_seq = 0 /\ pm_seq = 0 /\ userchat = {} /\ groupmsgs = {}
  /\ group_seq = 0
  /\ today = 1
  /\ dblock = 0
  /\ tasks = [i \in Slots |-> IdleTask]
  /\ nev = 0
  /\ nu = [u \in Users |-> 0]
  /\ scn = [on |-> TRUE, k |-> 0]
  /\ added = [name \in {"new_user", "user_message"} |-> [d \in 1..MaxDays |-> 0]]

\* No destruction window in the bot's cfg.
InitStore == InitTables /\ cfg = [destruct_user |-> 0, destruct_bot |-> 0]

\* A new install.  The first-access checks of the repositories find its
\* schema complete and change nothing in the store; their steps and flags
\* are followed in SpecSchema.
Init == InitStore /\ schema = FreshSchema /\ sweep = NoSweep

\* The events of the bot, users us writing, the gateway behaving as one of
\* fs, at most n events in all.
Events(us, fs, n) ==
  \/ \E u \in us, f \in fs : RecvUserMessage(u, f, n)
  \/ \E u \in us, f \in fs : RecvStart(u, f, n)
  \/ \E u \in us, b \in Buttons, f \in fs : PressButton(u, b, f, n)
  \/ \E a \in Admins, th \in AdminThreads, f \in fs : AdminPost(a, th, f, n)
  \/ \E a \in Admins, m \in groupmsgs, kind \in EditKinds, f \in fs :
       AdminEdit(a, m, kind, f, n)
  \/ \E a \in Admins, cmd \in Commands, th \in AdminThreads,
        reply_to \in 0..MaxGroupMsgs, f \in fs :
       AdminCommand(a, cmd, th, reply_to, f, n)
  \/ \E a \in Admins, th \in AdminThreads, f \in fs : QuickReply(a, th, f, n)
  \/ \E th \in topics : TopicDeleted(th, n)
  \/ \E i \in Slots : Return(i)

\* The bot's cfg with or without each destruction window, in hours.
InitWindows ==
  /\ InitTables /\ schema = FreshSchema /\ sweep = NoSweep
  /\ cfg \in [destruct_user : {0, 1}, destruct_bot : {0, 1}]

\* One user writes, the gateway accepts every call.
Next == Events({1}, {NoFault}, MaxEvents)

Spec == Init /\ [][Next]_vars

\* One user writes, the gateway may fail one call of a run.
NextFault == Events({1}, FaultSets, MaxFaultEvents)

SpecFault == Init /\ [][NextFault]_vars

\* One user writes, the gateway accepts every call, the destruction
\* windows are configured or not.
MaxWindowEvents == 5
NextWindows == Events({1}, {NoFault}, MaxWindowEvents)

SpecWindows == InitWindows /\ [][NextWindows]_vars

\* Every user writes, the gateway accepts every call.
MaxCrowdEvents == 5
NextCrowd == Events(Users, {NoFault}, MaxCrowdEvents)

SpecCrowd == Init /\ [][NextCrowd]_vars

\* ------------------------------------------- SqlAction.get_grouped, get_range
\* The sum of column c over the rows.
RECURSIVE SumOf(_, _)
SumOf(rows, c) ==
  IF rows = {} THEN 0
  ELSE LET r == CHOOSE x \in rows : TRUE IN r[c] + SumOf(rows \ {r}, c)

\* A range that leaves its last day out.
InRangeBeforeTo(r, from_date, to_date) == r.date >= from_date /\ r.date < to_date

\* A range without its lower bound.
InRangeNoFrom(r, from_date, to_date) == r.date <= to_date

\* date >= from_date and date <= to_date (db.py 255-256, 452-453).
InRange(r, from_date, to_date) == r.date >= from_date /\ r.date <= to_date

\* SqlAction.get_grouped(from_date, to_date): one row per name that has a
\* row in the range, with the sum of its counts.
ActionGetGrouped(tbl, from_date, to_date) ==
  LET hit == {r \in tbl : InRange(r, from_date, to_date)}
  IN {[name |-> n, count |-> SumOf({r \in hit : r.name = n}, "count")]
      : n \in {r.name : r \in hit}}

\* The rows sorted by replies, descending.
RECURSIVE ByReplies(_)
ByReplies(rows) ==
  IF rows = {} THEN <<>>
  ELSE LET m == CHOOSE r \in rows : \A q \in rows : q.replies <= r.replies
       IN <<m>> \o ByReplies(rows \ {m})

\* SqlAdminStats.get_range(from_date, to_date): one row per (admin_id,
\* admin_name) of the range with the sums, ordered by the sum of replies.
AdminStatsGetRange(tbl, from_date, to_date) ==
  LET hit == {r \in tbl : InRange(r, from_date, to_date)}
      grp(k) == {r \in hit : r.admin_id = k[1] /\ r.admin_name = k[2]}
  IN ByReplies({[admin_id |-> k[1], admin_name |-> k[2],
                 replies |-> SumOf(grp(k), "replies"),
                 edits |-> SumOf(grp(k), "edits"),
                 deletes |-> SumOf(grp(k), "deletes")]
                : k \in {<<r.admin_id, r.admin_name>> : r \in hit}})

\* ---------------------------------------------- informing.build_stats_report
\* A line of the report: its kind, its name, the counters it renders.
Line(kind, name, parts) == [kind |-> kind, name |-> name, parts |-> parts]

\* The counters of a totals or admin line: the replies always, the edits
\* and the deletes when they are not 0.
Parts(replies, edits, deletes) ==
  << <<"replies", replies>> >>
  \o (IF edits # 0 THEN << <<"edits", edits>> >> ELSE <<>>)
  \o (IF deletes # 0 THEN << <<"deletes", deletes>> >> ELSE <<>>)

\* _format_admin_rows(rows).
FormatAdminRows(rows) ==
  IF rows = <<>> THEN <<Line("none", "-", <<>>)>>
  ELSE [k \in 1..Len(rows) |->
          Line("admin", rows[k].admin_name,
               Parts(rows[k].replies, rows[k].edits, rows[k].deletes))]

\* action_map.get(name, 0) or 0.
MapGet(actions, name) ==
  IF \E r \in actions : r.name = name
  THEN (CHOOSE r \in actions : r.name = name).count ELSE 0

SeqSum(rows, c) == SumOf({[k |-> k, v |-> rows[k][c]] : k \in 1..Len(rows)}, "v")

\* build_stats_report(bot, from_date, to_date, title) on the two tables.
BuildStatsReport(actions_tbl, admin_tbl, from_date, to_date, titled) ==
  LET actions == ActionGetGrouped(actions_tbl, from_date, to_date)
      admin_rows == AdminStatsGetRange(admin_tbl, from_date, to_date)
  IN << Line("header", IF titled THEN "title" ELSE "default",
             << <<"from", from_date>>, <<"to", to_date>> >>),
        Line("section", "users", <<>>),
        Line("counter", "new_user", << <<"count", MapGet(actions, "new_user")>> >>),
        Line("counter", "user_message", << <<"count", MapGet(actions, "user_message")>> >>),
        Line("section", "admins", <<>>),
        Line("totals", "", Parts(SeqSum(admin_rows, "replies"), SeqSum(admin_rows, "edits"),
                                 SeqSum(admin_rows, "deletes"))) >>
     \o FormatAdminRows(admin_rows)
     \o << Line("section", "tags", <<>>), Line("tag", "#stats", <<>>) >>

\* ------------------------------------------- the repositories called directly
\* A finished repository call h, started in the present world.
DbCall(h) == [NewTask(h, "done", 0, 0, 0, 0, 0, "", "") EXCEPT !.pre = World]

\* msgmirror.add, get and delete called one after another, at most MaxDbOps
\* writes.
CallMirrorAdd(am, uc, um, th) ==
  /\ nev < MaxDbOps
  /\ nev' = nev + 1
  /\ msgmirror' = MirrorAdd(msgmirror, GroupId, am, uc, um, th)
  /\ tasks' = [tasks EXCEPT ![1] =
                 [DbCall("msgmirror.add") EXCEPT
                    !.mapping = [NoMirror EXCEPT !.admin_chat_id = GroupId,
                                                 !.admin_msg_id = am, !.user_chat_id = uc,
                                                 !.user_msg_id = um, !.thread_id = th]]]
  /\ UNCHANGED <<added, schema, sweep, tgusers, actionstats, adminstats, msgtodel, topics, topic_seq, pm_seq,
                 userchat, groupmsgs, group_seq, cfg, today, dblock, nu, scn>>

CallMirrorGet(am) ==
  /\ tasks' = [tasks EXCEPT ![1] =
                 [DbCall("msgmirror.get") EXCEPT !.mid = am,
                    !.mapping = MirrorGet(msgmirror, GroupId, am)]]
  /\ UNCHANGED <<added, schema, sweep, tgusers, actionstats, adminstats, msgtodel, msgmirror, topics, topic_seq,
                 pm_seq, userchat, groupmsgs, group_seq, cfg, today, dblock, nev, nu, scn>>

CallMirrorDelete(am) ==
  /\ nev < MaxDbOps
  /\ nev' = nev + 1
  /\ msgmirror' = MirrorDelete(msgmirror, GroupId, am)
  /\ tasks' = [tasks EXCEPT ![1] = [DbCall("msgmirror.delete") EXCEPT !.mid = am]]
  /\ UNCHANGED <<added, schema, sweep, tgusers, actionstats, adminstats, msgtodel, topics, topic_seq, pm_seq,
                 userchat, groupmsgs, group_seq, cfg, today, dblock, nu, scn>>

Ids == 1..MaxIds

NextMirror ==
  \/ \E am \in Ids, uc \in Users, um \in Ids, th \in 1..MaxThreads :
       CallMirrorAdd(am, uc, um, th)
  \/ \E am \in Ids : CallMirrorGet(am)
  \/ \E am \in Ids : CallMirrorDelete(am)

SpecMirror == Init /\ [][NextMirror]_vars

\* msgtodel.add called again and again; the clock is the number of calls.
CallMsgToDelAdd(msg, chat_id) ==
  LET r == MsgToDelAdd(msgtodel, msg, chat_id, nev)
  IN /\ nev < MaxDbOps
     /\ nev' = nev + 1
     /\ msgtodel' = r.tbl
     /\ tasks' = [tasks EXCEPT ![1] =
                    [DbCall("msgtodel.add") EXCEPT !.sent = msg, !.chat_id = chat_id,
                                                  !.exc = r.err]]
     /\ UNCHANGED <<added, schema, sweep, tgusers, actionstats, adminstats, msgmirror, topics, topic_seq, pm_seq,
                    userchat, groupmsgs, group_seq, cfg, today, dblock, nu, scn>>

NextMsgToDel ==
  \E chat \in Users, id \in Ids, date \in {0, nev}, is_bot \in BOOLEAN,
     chat_id \in {None} \cup Users :
    CallMsgToDelAdd([chat |-> chat, message_id |-> id, date |-> date, is_bot |-> is_bot],
                    chat_id)

SpecMsgToDel == Init /\ [][NextMsgToDel]_vars

\* action.add and adminstats.bump running concurrently, one call per slot.
\* A call is a transaction: its INSERT takes the write lock of the database
\* (it waits while another transaction holds it), a unique-constraint
\* failure of the INSERT is answered by the UPDATE, the commit gives the
\* lock back.
ActionNames == {"new_user", "user_message"}
BumpFields == {"replies", "EDITS", "deletes", "views"}

IsBump(t) == t.h = "adminstats.bump"

CounterStep(w, t) ==
  CASE t.pc = "ins" ->
        IF IsBump(t)
        THEN IF AdminStatsConflict(w.adminstats, t.a, today)
             THEN R(w, Goto(t, "upd"))
             ELSE R([w EXCEPT !.adminstats = AdminStatsInsert(@, t.a, AdminName(t.a),
                                                              Lower(t.kind), today)],
                    Goto(t, "commit"))
        ELSE IF ActionConflict(w.actionstats, t.kind, today)
             THEN R(w, Goto(t, "upd"))
             ELSE R([w EXCEPT !.actionstats = ActionInsert(@, t.kind, today)],
                    Goto(t, "commit"))
    [] t.pc = "upd" ->
        IF IsBump(t)
        THEN R([w EXCEPT !.adminstats = AdminStatsUpdate(@, t.a, AdminName(t.a),
                                                         Lower(t.kind), today)],
               Goto(t, "commit"))
        ELSE R([w EXCEPT !.actionstats = ActionUpdate(@, t.kind, today)], Goto(t, "commit"))
    [] t.pc = "commit" -> R(w, Done(t))

BeginAdd(i, name) ==
  /\ tasks[i].pc = "idle"
  /\ tasks' = [tasks EXCEPT ![i] =
                 [NewTask("action.add", "ins", 0, 0, 0, 0, 0, "", name) EXCEPT !.pre = World]]
  /\ UNCHANGED <<added, schema, sweep, tgusers, actionstats, adminstats, msgtodel, msgmirror, topics, topic_seq,
                 pm_seq, userchat, groupmsgs, group_seq, cfg, today, dblock, nev, nu, scn>>

BeginBump(i, a, field) ==
  /\ tasks[i].pc = "idle"
  /\ tasks' = [tasks EXCEPT ![i] =
                 [NewTask("adminstats.bump",
                          IF Lower(field) \in StatFields THEN "ins" ELSE "done",
                          0, a, 0, 0, 0, "", field) EXCEPT !.pre = World]]
  /\ UNCHANGED <<added, schema, sweep, tgusers, actionstats, adminstats, msgtodel, msgmirror, topics, topic_seq,
                 pm_seq, userchat, groupmsgs, group_seq, cfg, today, dblock, nev, nu, scn>>

TxStep(i) ==
  LET t == tasks[i]
      r == CounterStep(World, t)
  IN /\ t.h \in {"action.add", "adminstats.bump"}
     /\ Running(t)
     /\ dblock = IF t.pc = "ins" THEN 0 ELSE i
     /\ dblock' = IF t.pc = "commit" THEN 0 ELSE i
     /\ actionstats' = r.w.actionstats
     /\ adminstats' = r.w.adminstats
     /\ tasks' = [tasks EXCEPT ![i] = r.t]
     /\ UNCHANGED <<added, schema, sweep, tgusers, msgtodel, msgmirror, topics, topic_seq, pm_seq, userchat,
                    groupmsgs, group_seq, cfg, today, nev, nu, scn>>

NextCounter ==
  \/ \E i \in Slots, name \in ActionNames : BeginAdd(i, name)
  \/ \E i \in Slots, a \in Admins, field \in BumpFields : BeginBump(i, a, field)
  \/ \E i \in Slots : TxStep(i)

SpecCounter == Init /\ [][NextCounter]_vars

\* The counters incremented day after day, and the report built over a
\* range of days.
Days == 1..MaxDays

CallActionAdd(name) ==
  /\ nev < MaxDbOps
  /\ nev' = nev + 1
  /\ actionstats' = ActionAdd(actionstats, name, today)
  /\ added' = [added EXCEPT ![name][today] = @ + 1]
  /\ tasks' = [tasks EXCEPT ![1] = [DbCall("action.add") EXCEPT !.kind = name]]
  /\ UNCHANGED <<schema, sweep, tgusers, adminstats, msgtodel, msgmirror, topics, topic_seq, pm_seq,
                 userchat, groupmsgs, group_seq, cfg, today, dblock, nu, scn>>

CallBump(a, field) ==
  /\ nev < MaxDbOps
  /\ nev' = nev + 1
  /\ adminstats' = AdminStatsBump(adminstats, a, AdminName(a), field, today)
  /\ tasks' = [tasks EXCEPT ![1] = [DbCall("adminstats.bump") EXCEPT !.a = a, !.kind = field]]
  /\ UNCHANGED <<added, schema, sweep, tgusers, actionstats, msgtodel, msgmirror, topics, topic_seq, pm_seq,
                 userchat, groupmsgs, group_seq, cfg, today, dblock, nu, scn>>

NextDay ==
  /\ today < MaxDays
  /\ today' = today + 1
  /\ UNCHANGED <<added, schema, sweep, tgusers, actionstats, adminstats, msgtodel, msgmirror, topics, topic_seq,
                 pm_seq, userchat, groupmsgs, group_seq, cfg, dblock, tasks, nev, nu, scn>>

\* build_stats_report(bot, from_date, to_date, title); to_date None is today.
CallReport(from_date, to_date, titled) ==
  LET hi == IF to_date = None THEN today ELSE to_date
  IN /\ tasks' = [tasks EXCEPT ![1] =
                    [DbCall("build_stats_report") EXCEPT !.lo = from_date, !.hi = hi,
                       !.report = BuildStatsReport(actionstats, adminstats, from_date, hi,
                                                   titled)]]
     /\ UNCHANGED <<added, schema, sweep, tgusers, actionstats, adminstats, msgtodel, msgmirror, topics,
                    topic_seq, pm_seq, userchat, groupmsgs, group_seq, cfg, today, dblock,
                    nev, nu, scn>>

NextStats ==
  \/ \E name \in ActionNames : CallActionAdd(name)
  \/ \E a \in Admins, field \in BumpFields : CallBump(a, field)
  \/ NextDay
  \/ \E from_date \in Days, to_date \in {None} \cup Days, titled \in BOOLEAN :
       CallReport(from_date, to_date, titled)

SpecStats == Init /\ [][NextStats]_vars

\* ------------------------------------------------------------- the claims
\* The finished run the dispatcher has not yet taken back.
Last == tasks[1]
Finished(h) == Last.pc = "done" /\ Last.h = h

\* The calls of run t with operation op, and those among them accepted.
Calls(t, op) == {k \in 1..Len(t.calls) : t.calls[k].op = op}
OkCalls(t, op) == {k \in Calls(t, op) : t.calls[k].res = "ok"}

\* The records of user u in table tbl, and the first of them.
RowsOf(tbl, u) == {r \in tbl : r.user_id = u}
Rec(u) == TgUserGet(tgusers, u, None)
PreRec(t) == TgUserGet(t.pre.tgusers, t.u, None)

\* The run t of user_message took the gate branch: it found no record or a
\* record with can_message = FALSE, of a user who is not banned.
GateRun(t) == t.h = "user_message" /\ ~PreRec(t).banned /\ ~PreRec(t).can_message

\* The run t of user_message took the open branch.
OpenRun(t) == t.h = "user_message" /\ ~PreRec(t).banned /\ PreRec(t).can_message

\* C1. Gate idempotence.  After user_message has handled a gate-blocked
\* message (of a user without a record, or with a record that never had the
\* contact action), the store holds exactly one record of the user, with
\* can_message = FALSE; the new_user counter was incremented by this run
\* exactly when the user had no record, and in all exactly once for the user.
C1_GateIdempotence ==
  (Finished("user_message") /\ GateRun(Last)) =>
    /\ Cardinality(RowsOf(tgusers, Last.u)) = 1
    /\ ~Rec(Last.u).can_message
    /\ ActionCount(actionstats, "new_user", today)
         = ActionCount(Last.pre.actionstats, "new_user", today)
           + (IF Found(PreRec(Last)) THEN 0 ELSE 1)
    /\ nu[Last.u] = 1

\* A second gate-blocked message of a user whose record the first one made.
C1_Witness ==
  /\ Finished("user_message") /\ GateRun(Last)
  /\ Found(PreRec(Last)) /\ PreRec(Last).thread_id = None
  /\ Cardinality(RowsOf(tgusers, Last.u)) = 1
  /\ nu[Last.u] = 1
  /\ ActionCount(actionstats, "new_user", today) = 1

\* C2. Ban short-circuit.  A run of user_message that finds the user's
\* record banned makes no forward and no thread creation (it makes no
\* gateway call at all), whatever can_message, thread_id and first_replied.
C2_BanShortCircuit ==
  (Finished("user_message") /\ PreRec(Last).banned) =>
    /\ Calls(Last, "forward") = {}
    /\ Calls(Last, "create_topic") = {}
    /\ topic_seq = Last.pre.topic_seq
    /\ Last.calls = <<>>

\* A message of a banned user who is opted in and bound to a live thread.
C2_Witness ==
  /\ Finished("user_message") /\ PreRec(Last).banned
  /\ PreRec(Last).can_message /\ PreRec(Last).first_replied
  /\ PreRec(Last).thread_id \in topics
  /\ Last.calls = <<>>

\* The runs of C3: the contact action on a record with first_replied, the
\* message of an opted-in user whose welcome is due, and one whose welcome
\* was sent.
ContactRun(t) == t.h = "user_btn_handler" /\ t.btn = "start_chat"
C3_Contact ==
  (Last.pc = "done" /\ ContactRun(Last) /\ PreRec(Last).first_replied) =>
    (Rec(Last.u).can_message /\ ~Rec(Last.u).first_replied)
C3_Later ==
  (Last.pc = "done" /\ OpenRun(Last) /\ PreRec(Last).first_replied) =>
    Calls(Last, "welcome") = {}

\* Run t started after a message of the user had been forwarded, which had
\* set first_replied: the user_message counter tells it.
RepliedBefore(t) == ActionCount(t.pre.actionstats, "user_message", today) >= 1

\* C3 as stated: after the contact action on a record with first_replied,
\* the next message of the user, banned or not, is answered with exactly
\* one welcome and sets first_replied.
C3_AsStated ==
  /\ C3_Contact
  /\ (Finished("user_message") /\ PreRec(Last).can_message
      /\ ~PreRec(Last).first_replied /\ RepliedBefore(Last)) =>
       (Cardinality(OkCalls(Last, "welcome")) = 1 /\ Rec(Last.u).first_replied)
  /\ C3_Later

\* C3, amended.  Opt-in reset for a user who is not banned: the contact
\* action on a record with first_replied sets can_message and clears
\* first_replied; the next message of the user, when he is not banned, is
\* answered with exactly one welcome and sets first_replied; a message that
\* finds first_replied set is answered with no welcome.
C3_OptInReset ==
  /\ C3_Contact
  /\ (Finished("user_message") /\ OpenRun(Last) /\ ~PreRec(Last).first_replied) =>
       (Cardinality(Calls(Last, "welcome")) = 1
        /\ Cardinality(OkCalls(Last, "welcome")) = 1
        /\ Rec(Last.u).first_replied)
  /\ C3_Later

\* The welcome sent again: the message after a contact action that reset
\* first_replied.
C3_Witness ==
  /\ Finished("user_message") /\ OpenRun(Last) /\ ~PreRec(Last).first_replied
  /\ RepliedBefore(Last)
  /\ Cardinality(OkCalls(Last, "welcome")) = 1
  /\ Rec(Last.u).first_replied

\* C4. Thread recreation.  When the forward into the bound thread T is
\* answered 'thread not found', the run creates exactly one thread T',
\* forwards the message into T' with its second and last forward attempt,
\* and leaves the record bound to T'.
LostThreadRun(t) ==
  /\ OpenRun(t)
  /\ Len(t.calls) >= 1
  /\ t.calls[1].op = "forward" /\ t.calls[1].res = "ThreadNotFound"
C4_ThreadRecreation ==
  (Finished("user_message") /\ LostThreadRun(Last)) =>
    /\ Cardinality(Calls(Last, "create_topic")) = 1
    /\ Cardinality(Calls(Last, "forward")) = 2
    /\ Cardinality(OkCalls(Last, "forward")) = 1
    /\ topic_seq = Last.pre.topic_seq + 1
    /\ \A k \in OkCalls(Last, "forward") : Last.calls[k].thread = topic_seq
    /\ Rec(Last.u).thread_id = topic_seq
    /\ Rec(Last.u).thread_id # PreRec(Last).thread_id
    /\ Rec(Last.u).thread_id \in topics

C4_Witness ==
  /\ Finished("user_message") /\ LostThreadRun(Last)
  /\ PreRec(Last).thread_id = 1
  /\ Rec(Last.u).thread_id = 2
  /\ Cardinality(Calls(Last, "forward")) = 2

\* The admin stat counter field of admin a on day today (0 without a row).
StatOf(tbl, a, field) ==
  LET rows == {r \in tbl : r.admin_id = a /\ r.date = today}
  IN IF rows = {} THEN 0 ELSE (CHOOSE r \in rows : TRUE)[field]

\* The states of the end-to-end scenario, by the number of its events
\* handled so far.
ScnState(k) ==
  LET r == Rec(1)
      copies == {c \in userchat : c.chat = 1}
  IN CASE k = 0 -> tgusers = {}
       [] k = 1 ->
            /\ Cardinality(tgusers) = 1 /\ Found(r)
            /\ ~r.can_message /\ r.thread_id = None
            /\ ActionCount(actionstats, "new_user", today) = 1
            /\ topic_seq = 0
       [] k = 2 -> r.can_message /\ topic_seq = 0
       [] k = 3 ->
            /\ topic_seq = 1 /\ r.thread_id = 1 /\ 1 \in topics
            /\ r.first_replied /\ r.can_message
            /\ Last.pc = "done" =>
                 /\ Cardinality(OkCalls(Last, "welcome")) = 1
                 /\ Cardinality(OkCalls(Last, "forward")) = 1
                 /\ \A j \in Calls(Last, "forward") : Last.calls[j].thread = 1
            /\ ActionCount(actionstats, "user_message", today) = 1
       [] k = 4 ->
            /\ copies = {[chat |-> 1, id |-> pm_seq, of |-> 1, ver |-> 0]}
            /\ msgmirror = {[id |-> 1, admin_chat_id |-> GroupId, admin_msg_id |-> 1,
                             user_chat_id |-> 1, user_msg_id |-> pm_seq, thread_id |-> 1]}
            /\ StatOf(adminstats, 1, "replies") = 1
       [] k = 5 ->
            /\ copies = {[chat |-> 1, id |-> pm_seq, of |-> 1, ver |-> 1]}
            /\ Cardinality(msgmirror) = 1
            /\ MirrorGet(msgmirror, GroupId, 1).user_msg_id = pm_seq
            /\ StatOf(adminstats, 1, "replies") = 1
            /\ StatOf(adminstats, 1, "edits") = 1
       [] k = 6 ->
            /\ copies = {} /\ msgmirror = {}
            /\ StatOf(adminstats, 1, "replies") = 1
            /\ StatOf(adminstats, 1, "edits") = 1
            /\ StatOf(adminstats, 1, "deletes") = 1

\* C10. End-to-end scenario.  From the empty store, the gateway accepting
\* every call, the events (message, contact action, message, admin reply in
\* the user's thread, edit of the reply, delete command on it) pass through:
\* a record with can_message = FALSE, new_user 1 and no thread; can_message
\* TRUE; thread created, welcome sent, message forwarded, first_replied;
\* a copy at the user, one mirror row, reply counter 1; the copy edited in
\* place, edit counter 1; the copy and the mirror row gone, delete counter 1.
C10_Scenario == scn.on => ScnState(scn.k)

C10_Witness == scn.on /\ scn.k = 6 /\ ScnState(6) /\ nev = 6

\* The run t of admin_message_edit found a mirror entry and had its
\* in-place edit of the user's copy rejected with a bad request, every
\* other call it made being accepted.
EditRejectedRun(t) ==
  /\ t.h = "admin_message_edit" /\ Found(t.mapping)
  /\ Len(t.calls) >= 1
  /\ t.calls[1].op = "edit" /\ t.calls[1].res = "BadRequest"
  /\ \A k \in 2..Len(t.calls) : t.calls[k].res = "ok"

\* C7. Edit fallback.  When the in-place edit is rejected with a bad
\* request and no other call of the run fails, the edit handler sends
\* exactly one new copy to the user, the mirror entry of the admin message
\* is the single row of its key and points at the new copy, with the user
\* chat and the thread it had, and the admin's edit counter has grown by
\* exactly 1.
C7_EditFallback ==
  (Finished("admin_message_edit") /\ EditRejectedRun(Last)) =>
    LET m == Last.mapping
        now == MirrorGet(msgmirror, GroupId, Last.mid)
    IN /\ Cardinality(Calls(Last, "copy")) = 1
       /\ Cardinality(OkCalls(Last, "copy")) = 1
       /\ pm_seq = Last.pre.pm_seq + 1
       /\ \E c \in userchat : c.chat = m.user_chat_id /\ c.id = pm_seq /\ c.of = Last.mid
       /\ Cardinality({r \in msgmirror : r.admin_chat_id = GroupId
                                          /\ r.admin_msg_id = Last.mid}) = 1
       /\ now.user_msg_id = pm_seq
       /\ now.user_msg_id # m.user_msg_id
       /\ now.user_chat_id = m.user_chat_id /\ now.thread_id = m.thread_id
       /\ now.admin_chat_id = m.admin_chat_id /\ now.admin_msg_id = m.admin_msg_id
       /\ StatOf(adminstats, Last.a, "edits")
            = StatOf(Last.pre.adminstats, Last.a, "edits") + 1

C7_Witness ==
  /\ Finished("admin_message_edit") /\ EditRejectedRun(Last)
  /\ Cardinality(OkCalls(Last, "copy")) = 1
  /\ MirrorGet(msgmirror, GroupId, Last.mid).user_msg_id = pm_seq
  /\ StatOf(adminstats, Last.a, "edits") = 1
  /\ ~InChat(World, Last.mapping.user_chat_id, Last.mapping.user_msg_id)

\* ----------------------------------------------------- counter concurrency
\* The slots whose increment of the key has been applied to the table.
AppliedAdds(name) ==
  {i \in Slots : tasks[i].h = "action.add" /\ tasks[i].kind = name
                 /\ tasks[i].pc \in {"commit", "done"}}

AppliedBumps(a, field) ==
  {i \in Slots : tasks[i].h = "adminstats.bump" /\ tasks[i].a = a
                 /\ Lower(tasks[i].kind) = field /\ tasks[i].pc \in {"commit", "done"}}

MirrorRows(tbl, am) == {r \in tbl : r.admin_chat_id = GroupId /\ r.admin_msg_id = am}

SameMapping(r, m) ==
  /\ r.admin_chat_id = m.admin_chat_id /\ r.admin_msg_id = m.admin_msg_id
  /\ r.user_chat_id = m.user_chat_id /\ r.user_msg_id = m.user_msg_id
  /\ r.thread_id = m.thread_id

\* C6: after any sequence of msgmirror.add (and delete) calls there is at
\* most one row per (admin_chat_id, admin_msg_id); after an add there is
\* exactly one row of its key, it holds the values of that call, and
\* msgmirror.get returns them.
C6_MirrorReplace ==
  /\ \A am \in Ids : Cardinality(MirrorRows(msgmirror, am)) <= 1
  /\ Finished("msgmirror.add") =>
       LET m == Last.mapping
       IN /\ Cardinality(MirrorRows(msgmirror, m.admin_msg_id)) = 1
          /\ \A r \in MirrorRows(msgmirror, m.admin_msg_id) : SameMapping(r, m)
          /\ SameMapping(MirrorGet(msgmirror, GroupId, m.admin_msg_id), m)
  /\ Finished("msgmirror.get") => Last.mapping = MirrorGet(msgmirror, GroupId, Last.mid)

\* The second add of an admin key, with a different user_msg_id.
C6_Witness ==
  /\ Finished("msgmirror.add")
  /\ \E r \in MirrorRows(Last.pre.msgmirror, Last.mapping.admin_msg_id) :
       r.user_msg_id # Last.mapping.user_msg_id
  /\ Cardinality(msgmirror) = MaxIds

\* ------------------------------------------------ pending-deletion idempotence
\* The key of the row a msgtodel.add call stores.
KeyChat(t) == IF t.chat_id # None THEN t.chat_id ELSE t.sent.chat

AlreadyScheduled(t) ==
  \E r \in t.pre.msgtodel : r.chat_id = KeyChat(t) /\ r.msg_id = t.sent.message_id

\* C8: after any sequence of msgtodel.add calls there is at most one row per
\* (chat_id, msg_id); an add raises no error, and an add of a key that is
\* already scheduled leaves the table, and so the first row of the key with
\* its sent_at and by_bot, unchanged.
C8_PendingDeletionIdempotence ==
  /\ \A r1 \in msgtodel, r2 \in msgtodel :
       (r1.chat_id = r2.chat_id /\ r1.msg_id = r2.msg_id) => r1 = r2
  /\ Finished("msgtodel.add") =>
       /\ Last.exc = "none"
       /\ AlreadyScheduled(Last) => msgtodel = Last.pre.msgtodel
       /\ ~AlreadyScheduled(Last) =>
            \E r \in msgtodel \ Last.pre.msgtodel :
              /\ r.chat_id = KeyChat(Last) /\ r.msg_id = Last.sent.message_id
              /\ msgtodel = Last.pre.msgtodel \cup {r}

\* A key scheduled by the user-message path (by_bot false, sent at the date
\* of the message) is scheduled again, later, by the copied-message path.
C8_Witness ==
  /\ Finished("msgtodel.add")
  /\ Last.chat_id # None
  /\ \E r \in Last.pre.msgtodel :
       /\ r.chat_id = KeyChat(Last) /\ r.msg_id = Last.sent.message_id
       /\ ~r.by_bot /\ r.sent_at < nev - 1
       /\ r \in msgtodel

\* ------------------------------------------------------------ stats zero-fill
\* No action counter row and no admin stat row in the range of the report.
EmptyRange(t) ==
  /\ \A r \in t.pre.actionstats : ~(r.date >= t.lo /\ r.date <= t.hi)
  /\ \A r \in t.pre.adminstats : ~(r.date >= t.lo /\ r.date <= t.hi)

HasLine(report, kind, name) ==
  \E k \in 1..Len(report) : report[k].kind = kind /\ report[k].name = name

\* A line of the kind renders counter c with value v.
Renders(report, kind, name, c, v) ==
  \E k \in 1..Len(report) :
    /\ report[k].kind = kind /\ report[k].name = name
    /\ \E j \in 1..Len(report[k].parts) : report[k].parts[j] = <<c, v>>

MentionsCounter(report, c) ==
  \E k \in 1..Len(report) : \E j \in 1..Len(report[k].parts) : report[k].parts[j][1] = c

AllSections(report) ==
  /\ HasLine(report, "section", "users")
  /\ HasLine(report, "section", "admins")
  /\ HasLine(report, "totals", "")
  /\ HasLine(report, "none", "-") \/ \E k \in 1..Len(report) : report[k].kind = "admin"
  /\ HasLine(report, "tag", "#stats")

\* C9 as stated: a report over a range without rows has every section and
\* renders new users, user messages, admin replies, admin edits and admin
\* deletes as 0.
C9_AsStated ==
  (Finished("build_stats_report") /\ EmptyRange(Last)) =>
    /\ AllSections(Last.report)
    /\ Renders(Last.report, "counter", "new_user", "count", 0)
    /\ Renders(Last.report, "counter", "user_message", "count", 0)
    /\ Renders(Last.report, "totals", "", "replies", 0)
    /\ Renders(Last.report, "totals", "", "edits", 0)
    /\ Renders(Last.report, "totals", "", "deletes", 0)

\* C9: a report over a range without rows has every section, renders new
\* users, user messages and admin replies as 0, renders no edits and no
\* deletes counter, and has the placeholder line as per-admin breakdown.
C9_StatsZeroFill ==
  (Finished("build_stats_report") /\ EmptyRange(Last)) =>
    /\ AllSections(Last.report)
    /\ Len(Last.report) = 9
    /\ Renders(Last.report, "counter", "new_user", "count", 0)
    /\ Renders(Last.report, "counter", "user_message", "count", 0)
    /\ Last.report[6] = Line("totals", "", << <<"replies", 0>> >>)
    /\ Last.report[7] = Line("none", "-", <<>>)
    /\ ~MentionsCounter(Last.report, "edits")
    /\ ~MentionsCounter(Last.report, "deletes")

\* A report over a range without rows while both tables hold rows of
\* another day.
C9_Witness ==
  /\ Finished("build_stats_report")
  /\ EmptyRange(Last)
  /\ Last.pre.actionstats # {}
  /\ \E r \in Last.pre.adminstats : r.edits > 0
  /\ Last.lo = Last.hi

\* ------------------------------------------ non-recoverable forward failure
\* The run t of user_message of a gate-open user forwarded into the bound
\* thread and the gateway rejected that forward otherwise than with
\* 'thread not found'.
ForwardRejectedRun(t) ==
  /\ t.h = "user_message" /\ Found(PreRec(t)) /\ ~PreRec(t).banned
  /\ PreRec(t).can_message /\ PreRec(t).thread_id # None
  /\ Len(t.calls) >= 1
  /\ t.calls[1].op = "forward" /\ t.calls[1].res \notin {"ok", "ThreadNotFound"}

\* C11: when the forward into the bound thread is rejected otherwise than
\* with 'thread not found', the failure leaves the handler body and the
\* forward is not retried: no welcome is sent, the user record is not
\* updated and the user_message counter is not incremented.
C11_ForwardFailurePropagates ==
  (Finished("user_message") /\ ForwardRejectedRun(Last)) =>
    /\ Last.exc = Last.calls[1].res
    /\ Len(Last.calls) = 1
    /\ Calls(Last, "welcome") = {}
    /\ tgusers = Last.pre.tgusers
    /\ ActionCount(actionstats, "user_message", today)
         = ActionCount(Last.pre.actionstats, "user_message", today)

\* ----------------------------------------------------------- delete command
\* The run t of the delete command replied to an admin message that has a
\* mirror entry.
DeleteRun(t) == t.h = "admin_delete_message" /\ t.reply_to # 0 /\ Found(t.mapping)

MirrorDropped(t) == ~Found(MirrorGet(msgmirror, GroupId, t.reply_to))

DeletesGrown(t) ==
  StatOf(adminstats, t.a, "deletes") - StatOf(t.pre.adminstats, t.a, "deletes")

\* The calls of t that failed otherwise than with a bad request.
HardFailures(t) ==
  {k \in 1..Len(t.calls) : t.calls[k].res # "ok" /\ ~IsBadRequest(t.calls[k].res)}

\* C12 as stated: whatever failure a deletion step ends with, all three
\* deletions are attempted, the mirror entry is dropped and the delete
\* counter grows by exactly 1.
C12_AsStated ==
  (Finished("admin_delete_message") /\ DeleteRun(Last)) =>
    /\ Len(Last.calls) = 3
    /\ MirrorDropped(Last)
    /\ DeletesGrown(Last) = 1

\* C12: when the deletion steps end accepted or with a bad request, the
\* three deletions are attempted in order (user copy, admin original,
\* command), the mirror entry is dropped and the delete counter grows by
\* exactly 1; a forbidden or other failure of deletion k ends the run with
\* that exception after k calls, and the entry is dropped and the counter
\* grown only when k is the deletion of the command.
C12_DeleteBestEffort ==
  (Finished("admin_delete_message") /\ DeleteRun(Last)) =>
    IF HardFailures(Last) = {}
    THEN /\ Len(Last.calls) = 3
         /\ Last.calls[1].chat = Last.mapping.user_chat_id
         /\ Last.calls[1].id = Last.mapping.user_msg_id
         /\ Last.calls[2].id = Last.reply_to
         /\ Last.calls[3].op = "delete_cmd"
         /\ MirrorDropped(Last)
         /\ DeletesGrown(Last) = 1
         /\ Last.exc = "none"
    ELSE /\ HardFailures(Last) = {Len(Last.calls)}
         /\ Last.exc = Last.calls[Len(Last.calls)].res
         /\ IF Len(Last.calls) = 3
            THEN MirrorDropped(Last) /\ DeletesGrown(Last) = 1
            ELSE msgmirror = Last.pre.msgmirror /\ DeletesGrown(Last) = 0

\* The deletion of the user's copy was rejected with a bad request and the
\* other steps were done.
C12_Witness ==
  /\ Finished("admin_delete_message") /\ DeleteRun(Last)
  /\ Len(Last.calls) = 3
  /\ Last.calls[1].res = "BadRequest" /\ Last.calls[2].res = "ok"
  /\ MirrorDropped(Last) /\ DeletesGrown(Last) = 1
  /\ \E c \in userchat : c.chat = Last.mapping.user_chat_id /\ c.id = Last.mapping.user_msg_id

\* ------------------------------------------------- no thread before opt-in
PrivateHandlers == {"cmd_start", "user_message", "user_btn_handler"}

\* User u has opted in: a record with can_message set.
OptedIn(u) == Found(Rec(u)) /\ Rec(u).can_message

CanMessage(tbl, u) == \E r \in tbl : r.user_id = u /\ r.can_message

\* The finished run t is the contact action of user u.
ContactOf(t, u) == t.h = "user_btn_handler" /\ t.btn = "start_chat" /\ t.u = u

\* The finished run t is an admin's message delivered to user u, found by
\* the thread the admin wrote into.
AdminWroteTo(t, u) ==
  /\ t.h = "admin_message" /\ Found(t.tguser) /\ t.tguser.user_id = u
  /\ t.tguser.thread_id = t.th /\ OkCalls(t, "copy") # {}

ReportedConditions == {"Forbidden", "NoRights"}

\* C15: every exception that leaves a handler and is not one of the
\* reported conditions (forbidden; bad request 'not enough rights to create
\* a topic') is logged through log_error, a bad request with any other
\* message included.
C15_OtherExceptionsLogged ==
  (Last.pc = "done" /\ Last.exc \notin {"none"} \cup ReportedConditions) => Last.logged

\* ------------------------------------------- first-access schema checks
\* Repository calls running concurrently on one database, each call in its
\* own slot and on its own connection.  A step is what runs between two
\* awaits.  The driver opens no transaction for PRAGMA, ALTER and CREATE:
\* each of these statements is committed when it returns.
SchemaCalls == {"tguser.get", "tguser.add", "msgmirror.get", "msgmirror.add"}

OnTgUser(t) == t.h \in {"tguser.get", "tguser.add"}

\* ALTER TABLE tgusers ADD COLUMN can_message on schema s: SQLite rejects
\* it with 'duplicate column name' when the column is there.
AlterAccepted(s) == ~s.can_message

\* SqlTgUser._ensure_can_message_column.
EnsureColumnStep(s, t) ==
  CASE t.pc = "chk" ->
        IF s.schema_checked THEN [s |-> s, t |-> Goto(t, "op")]
        ELSE [s |-> s, t |-> Goto(t, "pragma")]
    [] t.pc = "pragma" ->
        [s |-> s, t |-> Goto(t, IF s.can_message THEN "exit" ELSE "alter")]
    [] t.pc = "alter" ->
        IF AlterAccepted(s)
        THEN [s |-> [s EXCEPT !.can_message = TRUE, !.alters = @ + 1], t |-> Goto(t, "exit")]
        ELSE [s |-> s, t |-> Done([t EXCEPT !.exc = "OperationalError"])]
    [] t.pc = "exit" ->
        [s |-> [s EXCEPT !.schema_checked = TRUE], t |-> Goto(t, "op")]

\* SqlMirroredMessages._ensure_table: CREATE TABLE IF NOT EXISTS, CREATE
\* INDEX IF NOT EXISTS.
EnsureTableStep(s, t) ==
  CASE t.pc = "chk" ->
        IF s.table_ready THEN [s |-> s, t |-> Goto(t, "op")]
        ELSE [s |-> s, t |-> Goto(t, "create")]
    [] t.pc = "create" -> [s |-> [s EXCEPT !.mirror_table = TRUE], t |-> Goto(t, "index")]
    [] t.pc = "index" -> [s |-> [s EXCEPT !.mirror_index = TRUE], t |-> Goto(t, "exit")]
    [] t.pc = "exit" -> [s |-> [s EXCEPT !.table_ready = TRUE], t |-> Goto(t, "op")]

\* A repository call starts in slot i.
BeginCall(i, h, u) ==
  /\ tasks[i].pc = "idle"
  /\ nev < MaxDbOps
  /\ nev' = nev + 1
  /\ tasks' = [tasks EXCEPT ![i] = NewTask(h, "chk", u, 0, 0, 1, 0, "", "")]
  /\ UNCHANGED <<added, schema, sweep, tgusers, actionstats, adminstats, msgtodel, msgmirror, topics,
                 topic_seq, pm_seq, userchat, groupmsgs, group_seq, cfg, today, dblock,
                 nu, scn>>

\* One step of the first-access check of the call in slot i.
EnsureStep(i) ==
  LET t == tasks[i]
      r == IF OnTgUser(t) THEN EnsureColumnStep(schema, t) ELSE EnsureTableStep(schema, t)
  IN /\ t.h \in SchemaCalls
     /\ Running(t) /\ t.pc # "op"
     /\ schema' = r.s
     /\ tasks' = [tasks EXCEPT ![i] = r.t]
     /\ UNCHANGED <<added, sweep, tgusers, actionstats, adminstats, msgtodel, msgmirror, topics,
                    topic_seq, pm_seq, userchat, groupmsgs, group_seq, cfg, today, dblock,
                    nev, nu, scn>>

\* The call's own operation, after its check.  The operation of add is
\* one transaction.
OwnOperation(i) ==
  LET t == tasks[i]
  IN /\ t.h \in SchemaCalls
     /\ t.pc = "op"
     /\ tgusers' = IF t.h = "tguser.add"
                   THEN TgUserAdd(tgusers, t.u, t.date, None, FALSE, FALSE) ELSE tgusers
     /\ msgmirror' = IF t.h = "msgmirror.add"
                     THEN MirrorAdd(msgmirror, GroupId, t.mid, t.u, t.mid, None)
                     ELSE msgmirror
     /\ tasks' = [tasks EXCEPT ![i] =
                    Done([t EXCEPT !.ret = "ok",
                                   !.tguser = IF t.h = "tguser.get"
                                              THEN TgUserGet(tgusers, t.u, None) ELSE @,
                                   !.mapping = IF t.h = "msgmirror.get"
                                               THEN MirrorGet(msgmirror, GroupId, 1) ELSE @])]
     /\ UNCHANGED <<added, schema, sweep, actionstats, adminstats, msgtodel, topics, topic_seq, pm_seq,
                    userchat, groupmsgs, group_seq, cfg, today, dblock, nev, nu, scn>>

\* An install of either age.
InitInstall ==
  /\ InitStore
  /\ schema \in {FreshSchema, [FreshSchema EXCEPT !.can_message = FALSE]}
  /\ sweep = NoSweep

NextSchema ==
  \/ \E i \in Slots, h \in SchemaCalls : BeginCall(i, h, 1)
  \/ \E i \in Slots : EnsureStep(i)
  \/ \E i \in Slots : OwnOperation(i)
  \/ \E i \in Slots : Return(i)

SpecSchema == InitInstall /\ [][NextSchema]_vars

\* C16: two repository calls that run their first-access check
\* concurrently on a store lacking the can_message column both get through:
\* no call ends with an exception, the column is added once, and every call
\* that ends has completed its own operation.
C16_SchemaRepairRace ==
  /\ schema.alters <= 1
  /\ \A i \in Slots :
       (tasks[i].h \in SchemaCalls /\ tasks[i].pc = "done") =>
         (tasks[i].exc = "none" /\ tasks[i].ret = "ok")

\* ------------------------------------------------ utils.destruct_messages
\* The bots given to one run, and the hours of their two windows.
MaxBots == 2
MaxHours == 1
\* datetime.utcnow() of the run, in hours.
UtcNow == 2

\* The two variables of the loop, in its order, and bot.cfg.get(var) as
\* kept in the bot's record (0: not in cfg).
DestructVars == <<"destruct_user_messages_for_user", "destruct_bot_messages_for_user">>

CfgGet(bot, var) == IF var = 1 THEN bot.destruct_user ELSE bot.destruct_bot

\* result.fetchall(): the rows in rowid order.
RECURSIVE Fetchall(_)
Fetchall(rows) ==
  IF rows = {} THEN <<>>
  ELSE LET r == CHOOSE x \in rows : \A y \in rows : x.id <= y.id
       IN <<r>> \o Fetchall(rows \ {r})

\* bot.db.msgtodel.remove(msgs): msgtodel is a SqlMessageToDelete, whose
\* class body (db.py 275-304) defines add and get_many; remove is defined
\* in the body of SqlMirroredMessages, so the attribute lookup raises.
MsgToDelRemove(tbl, msgs) == [tbl |-> tbl, err |-> "AttributeError"]

\* The position after variable var of bot b: the next variable, or the
\* end of the bot's turn.
AfterVar(s) == IF s.var < Len(DestructVars) THEN [s EXCEPT !.pc = "var", !.var = @ + 1]
               ELSE [s EXCEPT !.pc = "log"]

\* One step of destruct_messages in position s; o is the gateway's answer
\* to the delete_message of this step.
DestructStep(s, o) ==
  LET bot == s.bots[s.b]
  IN CASE s.pc = "var" ->
            IF CfgGet(bot, s.var) # 0
            THEN LET msgs == Fetchall(MsgToDelGetMany(bot.msgtodel,
                                                      UtcNow - CfgGet(bot, s.var),
                                                      DestructVars[s.var] =
                                                        "destruct_bot_messages_for_user"))
                 IN [s EXCEPT !.error_reported = FALSE, !.msgs = msgs, !.k = 1,
                              !.fetched = @ \cup {<<s.b, s.var>>},
                              !.pc = IF msgs = <<>> THEN "remove" ELSE "delete"]
            ELSE AfterVar(s)
       [] s.pc = "delete" ->
            LET s1 == [s EXCEPT !.attempts = @ \cup {<<s.b, s.msgs[s.k].id>>},
                                !.k = @ + 1,
                                !.pc = IF s.k = Len(s.msgs) THEN "remove" ELSE "delete"]
            IN IF o = "ok" THEN [s1 EXCEPT !.destructed = @ + 1]
               ELSE [s1 EXCEPT !.error_reported = TRUE,
                               !.errors = IF s.error_reported THEN @
                                          ELSE Append(@, <<s.b, s.var>>)]
       [] s.pc = "remove" ->
            LET r == MsgToDelRemove(bot.msgtodel, s.msgs)
            IN IF r.err = "none"
               THEN AfterVar([s EXCEPT !.bots[s.b].msgtodel = r.tbl])
               ELSE [s EXCEPT !.pc = "done", !.exc = r.err]
       [] s.pc = "log" ->
            LET s1 == IF s.destructed # 0 THEN [s EXCEPT !.logs = Append(@, <<s.b, s.destructed>>)]
                      ELSE s
            IN IF s.b < Len(s.bots)
               THEN [s1 EXCEPT !.pc = "var", !.b = @ + 1, !.var = 1, !.destructed = 0]
               ELSE [s1 EXCEPT !.pc = "done"]

\* destruct_messages(bots) is called.
BeginDestruct ==
  /\ sweep.pc = "idle"
  /\ sweep' = IF sweep.bots = <<>> THEN [sweep EXCEPT !.pc = "done"]
              ELSE [sweep EXCEPT !.pc = "var", !.b = 1, !.var = 1, !.destructed = 0]
  /\ UNCHANGED <<added, schema, tgusers, actionstats, adminstats, msgtodel, msgmirror, topics,
                 topic_seq, pm_seq, userchat, groupmsgs, group_seq, cfg, today, dblock,
                 tasks, nev, nu, scn>>

Destruct(o) ==
  /\ sweep.pc \notin {"idle", "done"}
  /\ o = "ok" \/ sweep.pc = "delete"
  /\ sweep' = DestructStep(sweep, o)
  /\ UNCHANGED <<added, schema, tgusers, actionstats, adminstats, msgtodel, msgmirror, topics,
                 topic_seq, pm_seq, userchat, groupmsgs, group_seq, cfg, today, dblock,
                 tasks, nev, nu, scn>>

\* The rows a bot's messages_to_delete may hold when the run starts: due
\* and not yet due, of the user and of the bot.
PendingRows ==
  {[id |-> 1, chat_id |-> 1, msg_id |-> 1, sent_at |-> 1, by_bot |-> FALSE],
   [id |-> 2, chat_id |-> 1, msg_id |-> 2, sent_at |-> 1, by_bot |-> TRUE],
   [id |-> 3, chat_id |-> 1, msg_id |-> 3, sent_at |-> 1, by_bot |-> FALSE],
   [id |-> 4, chat_id |-> 1, msg_id |-> 4, sent_at |-> 2, by_bot |-> TRUE]}

BotStates ==
  [destruct_user : 0..MaxHours, destruct_bot : 0..MaxHours,
   msgtodel : {{}, PendingRows, {r \in PendingRows : ~r.by_bot}}]

InitDestruct ==
  /\ InitStore
  /\ schema = FreshSchema
  /\ \E n \in 0..MaxBots : \E bots \in [1..n -> BotStates] : sweep = [NoSweep EXCEPT !.bots = bots]

NextDestruct ==
  \/ BeginDestruct
  \/ \E o \in {"ok", "Error"} : Destruct(o)

SpecDestruct == InitDestruct /\ [][NextDestruct]_vars

\* The entries of bot b due under variable var when the run starts.
DueAtStart(b, var) ==
  MsgToDelGetMany(sweep.bots[b].msgtodel, UtcNow - CfgGet(sweep.bots[b], var), var = 2)

Configured(b, var) == CfgGet(sweep.bots[b], var) # 0

\* C17: at the end of a destruct_messages run, every configured category
\* of every bot has been processed: a delete was attempted for each of its
\* due entries whatever the earlier deletes answered; and at most one error
\* is logged per category.
C17_BatchDestruction ==
  /\ \A i, j \in 1..Len(sweep.errors) : sweep.errors[i] = sweep.errors[j] => i = j
  /\ sweep.pc = "done" =>
       \A b \in 1..Len(sweep.bots), var \in 1..Len(DestructVars) :
         Configured(b, var) =>
           /\ <<b, var>> \in sweep.fetched
           /\ \A r \in DueAtStart(b, var) : <<b, r.id>> \in sweep.attempts

\* ----------------------------------------- insufficient rights for a topic
\* A finished user_message run whose thread creation was rejected with
\* 'not enough rights to create a topic'.
NoRightsRun(t) ==
  /\ t.h = "user_message" /\ t.pc = "done"
  /\ \E i \in 1..Len(t.calls) : t.calls[i].op = "create_topic" /\ t.calls[i].res = "NoRights"

\* C18: when thread creation fails for lack of rights while a user's
\* message is handled, one notice is sent to the admin group and the flow
\* is abandoned: the message is not forwarded, the user record is not
\* changed and no action counter is incremented.
C18_NoRightsAbandons ==
  NoRightsRun(Last) =>
    /\ Cardinality(Calls(Last, "notice_rights")) = 1
    /\ Last.calls[Len(Last.calls)].op = "notice_rights"
    /\ \A i \in 1..Len(Last.calls) :
         Last.calls[i].op = "forward" => Last.calls[i].res = "ThreadNotFound"
    /\ Calls(Last, "welcome") = {}
    /\ tgusers = Last.pre.tgusers
    /\ actionstats = Last.pre.actionstats
    /\ topics = Last.pre.topics

C18_Witness ==
  /\ NoRightsRun(Last)
  /\ OkCalls(Last, "notice_rights") # {}
  /\ Found(PreRec(Last)) /\ PreRec(Last).can_message

\* --------------------------------------------------------- user unreachable
\* The finished run t met a 'forbidden' failure of the gateway.
ForbiddenRun(t) == t.pc = "done" /\ t.exc = "Forbidden"

\* The thread of run t is bound to a user's record when the run starts.
BoundThread(t) == \E r \in t.pre.tgusers : r.thread_id = t.th

\* The notices of run t: 'user unreachable' and 'no rights'.
Notices(t) == Calls(t, "notice_ban") \cup Calls(t, "notice_rights")

\* C19: a 'forbidden' failure in admin_message for a thread bound to a
\* user posts one 'user unreachable' notice into that thread and records no
\* mirror entry and no reply count; in any other handler, or for a thread
\* bound to no user, no notice is sent.
C19_UserUnreachable ==
  ForbiddenRun(Last) =>
    IF Last.h = "admin_message" /\ BoundThread(Last)
    THEN /\ Cardinality(Calls(Last, "notice_ban")) = 1
         /\ \A k \in Calls(Last, "notice_ban") :
              Last.calls[k].chat = GroupId /\ Last.calls[k].thread = Last.th
         /\ Calls(Last, "notice_rights") = {}
         /\ msgmirror = Last.pre.msgmirror
         /\ adminstats = Last.pre.adminstats
    ELSE Notices(Last) = {}

C19_Witness ==
  /\ ForbiddenRun(Last) /\ Last.h = "admin_message" /\ BoundThread(Last)
  /\ OkCalls(Last, "notice_ban") # {}
  /\ Calls(Last, "copy") # {}

\* ------------------------------------------ SqlTgUser calls in concurrency
\* add, update and del_thread_id running concurrently, one call per slot.
\* A call is a transaction on its own connection: its first DELETE or
\* UPDATE takes the write lock of the database (it waits while another
\* transaction holds it), the commit gives the lock back.
TgUserCalls == {"tguser.add", "tguser.update", "tguser.del_thread_id"}
\* The calls made in one behaviour.
MaxTgUserOps == 3

\* A DELETE of add that leaves the rows in place.
TgUserDeleteNone(tbl, user_id) == tbl

\* The two statements of SqlTgUser.add.
TgUserDelete(tbl, user_id) == {r \in tbl : r.user_id # user_id}

TgUserInsert(tbl, rec) == tbl \cup {[rec EXCEPT !.id = NextId(tbl)]}

\* DbTgUser(...): the record add builds, stores and returns.
DbTgUser(user_id, date, thread_id, first_replied, can_message) ==
  [id |-> 0, user_id |-> user_id, thread_id |-> thread_id, last_user_msg_at |-> date,
   subject |-> "", banned |-> FALSE, first_replied |-> first_replied,
   can_message |-> can_message]

\* The keyword arguments of the update calls drawn.
UpdateKinds == {"thread_id", "banned", "subject"}

KwOf(t) ==
  CASE t.kind = "thread_id" -> [thread_id |-> 1, first_replied |-> TRUE]
    [] t.kind = "banned" -> [banned |-> TRUE]
    [] OTHER -> [subject |-> "s", last_user_msg_at |-> t.date]

TgUserStep(tbl, t) ==
  CASE t.pc = "delete" -> [tbl |-> TgUserDelete(tbl, t.u), t |-> Goto(t, "insert")]
    [] t.pc = "insert" -> [tbl |-> TgUserInsert(tbl, t.tguser), t |-> Goto(t, "commit")]
    [] t.pc = "update" ->
        [tbl |-> IF t.h = "tguser.update" THEN TgUserUpdate(tbl, t.u, KwOf(t))
                 ELSE TgUserDelThreadId(tbl, t.u),
         t |-> Goto(t, "commit")]
    [] t.pc = "commit" -> [tbl |-> tbl, t |-> Done(t)]

BeginTgUserAdd(i, u, thread_id, flag) ==
  /\ tasks[i].pc = "idle"
  /\ nev < MaxTgUserOps
  /\ nev' = nev + 1
  /\ tasks' = [tasks EXCEPT ![i] =
                 [NewTask("tguser.add", "delete", u, 0, 0, nev + 1, 0, "", "") EXCEPT
                    !.tguser = DbTgUser(u, nev + 1, thread_id, flag, flag)]]
  /\ UNCHANGED <<added, schema, sweep, tgusers, actionstats, adminstats, msgtodel, msgmirror, topics,
                 topic_seq, pm_seq, userchat, groupmsgs, group_seq, cfg, today, dblock,
                 nu, scn>>

BeginTgUserUpdate(i, h, u, kind) ==
  /\ tasks[i].pc = "idle"
  /\ nev < MaxTgUserOps
  /\ nev' = nev + 1
  /\ tasks' = [tasks EXCEPT ![i] = NewTask(h, "update", u, 0, 0, nev + 1, 0, "", kind)]
  /\ UNCHANGED <<added, schema, sweep, tgusers, actionstats, adminstats, msgtodel, msgmirror, topics,
                 topic_seq, pm_seq, userchat, groupmsgs, group_seq, cfg, today, dblock,
                 nu, scn>>

TgUserTxStep(i) ==
  LET t == tasks[i]
      r == TgUserStep(tgusers, t)
  IN /\ t.h \in TgUserCalls
     /\ Running(t)
     /\ dblock = IF t.pc \in {"delete", "update"} THEN 0 ELSE i
     /\ dblock' = IF t.pc = "commit" THEN 0 ELSE i
     /\ tgusers' = r.tbl
     /\ tasks' = [tasks EXCEPT ![i] = r.t]
     /\ UNCHANGED <<added, schema, sweep, actionstats, adminstats, msgtodel, msgmirror, topics,
                    topic_seq, pm_seq, userchat, groupmsgs, group_seq, cfg, today, nev,
                    nu, scn>>

NextTgUser ==
  \/ \E i \in Slots, u \in Users, thread_id \in {None, 1} :
       BeginTgUserAdd(i, u, thread_id, thread_id # None)
  \/ \E i \in Slots, u \in Users, kind \in UpdateKinds :
       BeginTgUserUpdate(i, "tguser.update", u, kind)
  \/ \E i \in Slots, u \in Users : BeginTgUserUpdate(i, "tguser.del_thread_id", u, "")
  \/ \E i \in Slots : TgUserTxStep(i)
  \/ \E i \in Slots : Return(i)

SpecTgUser == Init /\ [][NextTgUser]_vars

\* At most one record per user_id.
OneRecord == \A u \in Users : Cardinality(RowsOf(tgusers, u)) <= 1

\* The call of slot i is an add that returns in this step.
AddReturns(i) ==
  /\ tasks[i].h = "tguser.add" /\ tasks[i].pc = "commit" /\ tasks'[i].pc = "done"

\* Row r holds the values of record rec in every field but the rowid.
SameFields(r, rec) == [r EXCEPT !.id = 0] = rec

\* C20: whatever the interleaving of add, update and del_thread_id calls,
\* the store holds at most one record per user_id; and when add returns,
\* the stored record of its user is the one it returns, field by field
\* (banned, subject and thread_id included).
C20_OneRecordPerIdentity ==
  /\ []OneRecord
  /\ [][\A i \in Slots :
          AddReturns(i) =>
            /\ \E r \in tgusers' : r.user_id = tasks[i].u
            /\ \A r \in tgusers' : r.user_id = tasks[i].u => SameFields(r, tasks'[i].tguser)]_vars

\* Two adds of one user and an update of that user have returned, and the
\* store holds one record of the user: the one the later add returned.
C20_Witness ==
  \E i, j, k \in Slots :
    /\ tasks[i].h = "tguser.add" /\ tasks[i].pc = "done"
    /\ tasks[j].h = "tguser.add" /\ tasks[j].pc = "done"
    /\ tasks[k].h = "tguser.update" /\ tasks[k].pc = "done" /\ tasks[k].kind = "banned"
    /\ tasks[i].u = tasks[j].u /\ tasks[k].u = tasks[i].u
    /\ tasks[i].tguser # tasks[j].tguser
    /\ Cardinality(RowsOf(tgusers, tasks[i].u)) = 1
    /\ \E r \in tgusers : SameFields(r, tasks[i].tguser)

\* --------------------------------------- admin message in an unbound thread
\* The stores and the users' chats are as before run t.
StoreUntouched(t) ==
  /\ tgusers = t.pre.tgusers /\ actionstats = t.pre.actionstats
  /\ adminstats = t.pre.adminstats /\ msgmirror = t.pre.msgmirror
  /\ msgtodel = t.pre.msgtodel /\ userchat = t.pre.userchat /\ topics = t.pre.topics

\* C21: an admin message in a thread bound to no user is a silent no-op:
\* no gateway call is made, no mirror entry, admin stat or pending-deletion
\* row is added.
C21_UnboundThreadNoOp ==
  (Finished("admin_message") /\ ~BoundThread(Last)) =>
    (Last.calls = <<>> /\ Last.exc = "none" /\ StoreUntouched(Last))

\* An admin wrote into a thread bound to no user while users have records
\* and the bot-message window is configured.
C21_Witness ==
  /\ Finished("admin_message") /\ ~BoundThread(Last)
  /\ tgusers # {} /\ cfg.destruct_bot # 0

\* ------------------------------------------------- admin reply bookkeeping
\* The finished run t of admin_message delivered its copy.
DeliveredRun(t) == t.h = "admin_message" /\ t.pc = "done" /\ OkCalls(t, "copy") # {}

\* The mirror rows of admin message id in the admin group.
KeyRows(tbl, id) == {r \in tbl : r.admin_chat_id = GroupId /\ r.admin_msg_id = id}

\* C22: when admin_message has delivered the copy of admin message m,
\* posted in thread T bound to user u, the run ends with one mirror entry
\* keyed (admin chat, m) that names u, the delivered copy and T, and with
\* the admin's reply counter of the day increased by exactly 1.
C22_ReplyBookkeeping ==
  DeliveredRun(Last) =>
    /\ \E u \in Users :
         /\ \E r \in Last.pre.tgusers : r.user_id = u /\ r.thread_id = Last.th
         /\ \E c \in userchat : c.chat = u /\ c.id = Last.copied /\ c.of = Last.mid
         /\ \E r \in msgmirror :
              /\ KeyRows(msgmirror, Last.mid) = {r}
              /\ r.user_chat_id = u /\ r.user_msg_id = Last.copied /\ r.thread_id = Last.th
    /\ Last.copied \notin {c.id : c \in Last.pre.userchat}
    /\ StatOf(adminstats, Last.a, "replies") = StatOf(Last.pre.adminstats, Last.a, "replies") + 1
    /\ StatOf(adminstats, Last.a, "edits") = StatOf(Last.pre.adminstats, Last.a, "edits")
    /\ StatOf(adminstats, Last.a, "deletes") = StatOf(Last.pre.adminstats, Last.a, "deletes")

\* A second reply of the admin on the same day was delivered.
C22_Witness ==
  /\ DeliveredRun(Last)
  /\ StatOf(adminstats, Last.a, "replies") = 2
  /\ Cardinality(msgmirror) = 2

\* ------------------------------------------------------------ edit counter
\* The growth of admin a's counter field over run t.
StatGrowth(t, a, field) == StatOf(adminstats, a, field) - StatOf(t.pre.adminstats, a, field)

\* The mirror entry of the message run t is about, when the run starts.
PreMapping(t) == MirrorGet(t.pre.msgmirror, GroupId, t.mid)

\* C23: an edited-message event in an admin topic increments the admin's
\* edit counter, by exactly 1, only if the edited message has a mirror
\* entry and the in-place edit or the replacement copy succeeded; without a
\* mirror entry nothing is sent and no state changes; with neither text
\* nor caption, or with both paths rejected, the counter is unchanged.
C23_EditCounter ==
  Finished("admin_message_edit") =>
    /\ StatGrowth(Last, Last.a, "edits") \in {0, 1}
    /\ StatGrowth(Last, Last.a, "replies") = 0 /\ StatGrowth(Last, Last.a, "deletes") = 0
    /\ StatGrowth(Last, Last.a, "edits") = 1 =>
         /\ Found(PreMapping(Last))
         /\ OkCalls(Last, "edit") # {} \/ OkCalls(Last, "copy") # {}
    /\ ~Found(PreMapping(Last)) => (Last.calls = <<>> /\ StoreUntouched(Last))
    /\ (Last.kind = "none" \/ (OkCalls(Last, "edit") = {} /\ OkCalls(Last, "copy") = {})) =>
         adminstats = Last.pre.adminstats

\* The in-place edit and the replacement copy were both rejected.
C23_Witness ==
  /\ Finished("admin_message_edit") /\ Found(PreMapping(Last))
  /\ Calls(Last, "edit") # {} /\ Calls(Last, "copy") # {}
  /\ OkCalls(Last, "edit") = {} /\ OkCalls(Last, "copy") = {}
  /\ adminstats = Last.pre.adminstats

\* ------------------------------------------------------------- ban / unban
BanHandlers == {"admin_ban_user", "admin_unban_user"}

\* The mirror entry of the message the command of run t replies to.
RepliedMapping(t) == MirrorGet(t.pre.msgmirror, GroupId, t.reply_to)

\* Row r with banned set to b and every other field kept.
WithBanned(r, b) == [r EXCEPT !.banned = b]

\* C24: a ban (unban) command replying to admin message m sets banned to
\* true (false) on the record of the user named by m's mirror entry and
\* changes no other field of it and no other user's record; when m has no
\* mirror entry or the command is not a reply, no record changes.
C24_BanUnban ==
  (Last.pc = "done" /\ Last.h \in BanHandlers) =>
    IF Last.reply_to # 0 /\ Found(RepliedMapping(Last))
    THEN tgusers = {IF r.user_id = RepliedMapping(Last).user_chat_id
                    THEN WithBanned(r, Last.h = "admin_ban_user") ELSE r
                    : r \in Last.pre.tgusers}
    ELSE tgusers = Last.pre.tgusers

\* A user was banned while another user has a record.
C24_Witness ==
  /\ Finished("admin_ban_user")
  /\ Last.reply_to # 0 /\ Found(RepliedMapping(Last))
  /\ \E r \in tgusers : r.user_id = RepliedMapping(Last).user_chat_id /\ r.banned
  /\ \E r \in Last.pre.tgusers : r.user_id = RepliedMapping(Last).user_chat_id /\ ~r.banned
  /\ \E r \in tgusers : r.user_id # RepliedMapping(Last).user_chat_id /\ ~r.banned

\* ------------------------------------------------- bump of an unknown field
\* Field names that are no counter of adminstats, in any letter case.
UnknownFields == {f \in BumpFields \cup {"", "Views", "reply"} : Lower(f) \notin StatFields}

\* C25: adminstats.bump with a field outside replies, edits and deletes
\* (compared case-insensitively) raises nothing and creates or changes no
\* row, for every admin id and name.
C25_BumpUnknownField ==
  /\ \A a \in 1..(MaxAdmins + 1), name \in {"adm", ""}, f \in UnknownFields :
       AdminStatsBump(adminstats, a, name, f, today) = adminstats
  /\ (Finished("adminstats.bump") /\ Last.kind \in UnknownFields) =>
       (adminstats = Last.pre.adminstats /\ Last.exc = "none")

\* A bump of an unknown field was called on a table that has a row of
\* the admin for today and a row of an earlier day.
C25_Witness ==
  /\ Finished("adminstats.bump") /\ Last.kind \in UnknownFields
  /\ StatOf(adminstats, Last.a, "replies") > 0
  /\ \E r \in adminstats : r.date < today

\* ---------------------------------------------------- the combined update
\* The thread into which run t forwarded the user's message, or None.
ForwardedInto(t) ==
  IF OkCalls(t, "forward") = {} THEN None
  ELSE t.calls[CHOOSE k \in OkCalls(t, "forward") : TRUE].thread

\* C26: while a gate-open user's message is handled, the resolved thread_id
\* is written to the record by the one write that records last_message_at
\* and first_replied, and the message is never forwarded into a thread
\* while the record's thread_id is still empty.
C26_CombinedUpdate ==
  (Finished("user_message") /\ OpenRun(Last)) =>
    /\ \/ tgusers = Last.pre.tgusers
       \/ tgusers = TgUserUpdate(Last.pre.tgusers, Last.u,
                                 [thread_id |-> ForwardedInto(Last),
                                  last_user_msg_at |-> Last.date, first_replied |-> TRUE])
    /\ ForwardedInto(Last) # None => Rec(Last.u).thread_id # None

\* The run t of user_message took the open branch, and the gateway
\* accepted every call it made.
OpenSuccess(t) == OpenRun(t) /\ CleanRun(t)

\* C27: after user_message has handled, with no gateway failure, a message
\* of a user who is not banned and has can_message, the message was
\* forwarded exactly once, into the thread T the record is now bound to,
\* the record has first_replied and can_message, its last_user_msg_at is
\* the date of the message, the user_message counter of today grew by one,
\* and the new_user counter is unchanged.
C27_OpenSuccessState ==
  (Finished("user_message") /\ OpenSuccess(Last)) =>
    /\ Cardinality(OkCalls(Last, "forward")) = 1
    /\ ForwardedInto(Last) # None
    /\ Rec(Last.u).thread_id = ForwardedInto(Last)
    /\ Rec(Last.u).thread_id \in topics
    /\ Rec(Last.u).first_replied
    /\ Rec(Last.u).can_message
    /\ ~Rec(Last.u).banned
    /\ Rec(Last.u).last_user_msg_at = Last.date
    /\ Cardinality(RowsOf(tgusers, Last.u)) = 1
    /\ ActionCount(actionstats, "user_message", today)
         = ActionCount(Last.pre.actionstats, "user_message", today) + 1
    /\ ActionCount(actionstats, "new_user", today)
         = ActionCount(Last.pre.actionstats, "new_user", today)

\* The second message of an opted-in user, every call accepted: it goes
\* into the thread the first one created, and the counter reaches 2.
C27_Witness ==
  /\ Finished("user_message") /\ OpenSuccess(Last)
  /\ PreRec(Last).thread_id = 1 /\ PreRec(Last).first_replied
  /\ PreRec(Last).last_user_msg_at # Last.date
  /\ ForwardedInto(Last) = 1
  /\ Rec(Last.u).last_user_msg_at = Last.date
  /\ ActionCount(actionstats, "user_message", today) = 2
  /\ ActionCount(actionstats, "new_user", today) = 1

\* ------------------------------------------------ message of a banned user
\* The finished run t of user_message found the user's record banned.
BannedRun(t) == t.h = "user_message" /\ t.pc = "done" /\ PreRec(t).banned

\* The pending-deletion rows that run t added.
NewPending(t) == msgtodel \ t.pre.msgtodel

\* C28: a message of a banned user leaves the user records, the action
\* counters, the admin stats and the mirror table as they were, and nothing
\* is sent to the user or into the admin group; the pending-deletion table
\* gains the row of the message when the user-message window is configured,
\* and nothing otherwise.
C28_BannedFrame ==
  (Finished("user_message") /\ BannedRun(Last)) =>
    /\ tgusers = Last.pre.tgusers
    /\ actionstats = Last.pre.actionstats
    /\ adminstats = Last.pre.adminstats
    /\ msgmirror = Last.pre.msgmirror
    /\ Last.calls = <<>>
    /\ userchat = Last.pre.userchat
    /\ groupmsgs = Last.pre.groupmsgs
    /\ topics = Last.pre.topics
    /\ Last.pre.msgtodel \subseteq msgtodel
    /\ IF cfg.destruct_user = 0 THEN NewPending(Last) = {}
       ELSE /\ Cardinality(NewPending(Last)) = 1
            /\ \A r \in NewPending(Last) :
                 r.chat_id = Last.u /\ r.msg_id = Last.mid /\ ~r.by_bot

\* A banned user writes while the user-message window is configured: the
\* record keeps the date of an earlier message, one row is pending.
C28_Witness ==
  /\ Finished("user_message") /\ BannedRun(Last)
  /\ cfg.destruct_user # 0
  /\ Cardinality(NewPending(Last)) = 1
  /\ Rec(Last.u).last_user_msg_at # Last.date
  /\ Rec(Last.u).last_user_msg_at # 0

\* --------------------------------------------- pending deletions consumed
\* The entries of bot b that the run selected as due and tried to delete
\* are still in the bot's messages_to_delete.
StillPending(b) ==
  {r \in sweep.bots[b].msgtodel : <<b, r.id>> \in sweep.attempts}

\* C29: when a destruct_messages run has ended, every entry it selected
\* as due and tried to delete, successfully or not, is gone from the
\* pending-deletion table of its bot, so that no later run selects it.
C29_PendingConsumed ==
  sweep.pc = "done" => \A b \in 1..Len(sweep.bots) : StillPending(b) = {}

\* ---------------------------------------------------- counter conservation
\* The number of action.add(name) calls completed on the days from_date to
\* to_date, both included.
AddsIn(name, from_date, to_date) ==
  LET days == {d \in Days : from_date <= d /\ d <= to_date}
      RECURSIVE Sum(_)
      Sum(S) == IF S = {} THEN 0
                ELSE LET d == CHOOSE x \in S : TRUE IN added[name][d] + Sum(S \ {d})
  IN Sum(days)

\* to_date = to_date or datetime.date.today() (db.py 251).
ToDate(to_date) == IF to_date = None THEN today ELSE to_date

\* C30: whatever action.add calls were made, of whatever names, on whatever
\* days and in whatever order, get_grouped(from, to) has for each name
\* exactly one row with the number of add(name) calls made on the days
\* from..to, both included, when that number is not zero, and no row of
\* the name when it is zero.
C30_CounterConservation ==
  \A from_date \in Days, to_date \in Days \cup {None} :
    ActionGetGrouped(actionstats, from_date, ToDate(to_date))
      = {[name |-> n, count |-> AddsIn(n, from_date, ToDate(to_date))]
         : n \in {m \in ActionNames : AddsIn(m, from_date, ToDate(to_date)) > 0}}

\* A report was built over the one-day range of the last day, after adds
\* of both names on the first day and of one name, twice, on the last:
\* the range has one name only, and the whole range has both.
C30_Witness ==
  /\ Finished("build_stats_report") /\ Last.lo = MaxDays /\ Last.hi = MaxDays
  /\ today = MaxDays
  /\ added["new_user"][1] = 1 /\ added["user_message"][1] = 1
  /\ added["user_message"][MaxDays] = 2 /\ added["new_user"][MaxDays] = 0
  /\ ActionGetGrouped(actionstats, MaxDays, MaxDays)
       = {[name |-> "user_message", count |-> 2]}
  /\ ActionGetGrouped(actionstats, 1, MaxDays)
       = {[name |-> "user_message", count |-> 3], [name |-> "new_user", count |-> 1]}

\* ------------------------------------------------- handlers run concurrently
\* The dispatcher starts a task per update and the tasks interleave at
\* their awaits: each slot holds one invocation, a step is the code of one
\* task between two suspending awaits, the gateway accepts every call and
\* no topic is deleted.  A finished task stays in its slot.
AsyncBegin(i, w0, t0) ==
  /\ tasks[i].pc = "idle"
  /\ \A j \in Slots : j < i => tasks[j].pc # "idle"
  /\ SetWorld(w0)
  /\ tasks' = [tasks EXCEPT ![i] = [t0 EXCEPT !.pre = w0]]
  /\ nev' = nev + 1
  /\ scn' = ScnOff
  /\ UNCHANGED <<added, schema, sweep, cfg, today, dblock, nu>>

\* A private message of user u is dispatched to user_message.
AsyncUserMessage(i, u) ==
  /\ AsyncBegin(i, [World EXCEPT !.pm_seq = @ + 1],
                NewTask("user_message", "um_get", u, 0, 0, pm_seq + 1, 0, "", ""))
  /\ UNCHANGED group_seq

\* The contact action of user u is dispatched to user_btn_handler.
AsyncContact(i, u) ==
  /\ AsyncBegin(i, World, NewTask("user_btn_handler", "ub_get", u, 0, 0, 0, 0,
                                  "start_chat", ""))
  /\ UNCHANGED group_seq

\* A message of admin a in thread th, into which a user's message was
\* forwarded, is dispatched to admin_message.
AsyncAdminPost(i, a, th) ==
  /\ \E j \in Slots : ForwardedInto(tasks[j]) = th
  /\ group_seq < MaxGroupMsgs
  /\ group_seq' = group_seq + 1
  /\ AsyncBegin(i, [World EXCEPT !.groupmsgs = @ \cup {[id |-> group_seq + 1,
                                                        thread |-> th, ver |-> 0]}],
                NewTask("admin_message", "am_get", 0, a, th, group_seq + 1, 0, "", ""))

\* The task of slot i runs from one await to the next.
AsyncStep(i) ==
  /\ Running(tasks[i])
  /\ \E r \in {HandlerStep(World, tasks[i], "ok")} :
     /\ r.w.pm_seq <= MaxPm
     /\ r.w.topic_seq <= MaxThreads
     /\ SetWorld(r.w)
     /\ tasks' = [tasks EXCEPT ![i] = r.t]
     /\ nu' = IF tasks[i].u \in Users
              THEN [nu EXCEPT ![tasks[i].u] =
                      @ + ActionCount(r.w.actionstats, "new_user", today)
                        - ActionCount(actionstats, "new_user", today)]
              ELSE nu
  /\ UNCHANGED <<added, schema, sweep, group_seq, cfg, today, dblock, nev, scn>>

NextAsync ==
  \/ \E i \in Slots : AsyncUserMessage(i, 1)
  \/ \E i \in Slots : AsyncContact(i, 1)
  \/ \E i \in Slots, a \in Admins, th \in topics : AsyncAdminPost(i, a, th)
  \/ \E i \in Slots : AsyncStep(i)

SpecAsync == Init /\ [][NextAsync]_vars

\* The slots whose task is an invocation of handler h.
TasksOf(h) == {i \in Slots : tasks[i].h = h}

\* Every task started has finished.
Quiet == \A i \in Slots : ~Running(tasks[i])

\* Only messages of user 1 were dispatched, at least two of them: the user
\* had no record when the first arrived, and each was gate-blocked.
FirstContactRace ==
  /\ Cardinality(TasksOf("user_message")) >= 2
  /\ \A i \in Slots : tasks[i].h \in {"", "user_message"}

\* C31: when two or more user_message handlers have handled, in any
\* interleaving, gate-blocked messages of a user who had no record, the
\* store holds exactly one record of the user and the new_user counter was
\* incremented exactly once.
C31_ConcurrentFirstContact ==
  (Quiet /\ FirstContactRace) =>
    /\ Cardinality(RowsOf(tgusers, 1)) = 1
    /\ ActionCount(actionstats, "new_user", today) = 1

\* The user_message tasks that found the record opted in with the welcome
\* still due.
WelcomeDue == {i \in TasksOf("user_message") :
                 tasks[i].pc = "done" /\ tasks[i].tguser.can_message
                 /\ ~tasks[i].tguser.first_replied}

\* The welcomes sent by all tasks together.
WelcomesSent ==
  {<<i, k>> \in Slots \X (1..MaxCalls) :
     k <= Len(tasks[i].calls) /\ tasks[i].calls[k].op = "welcome"
     /\ tasks[i].calls[k].res = "ok"}

\* C32: when two or more user_message handlers have handled, in any
\* interleaving, messages of a gate-open user whose record had
\* first_replied = FALSE, the first-contact welcome was sent to the user
\* exactly once.
C32_ConcurrentWelcome ==
  (Quiet /\ Cardinality(WelcomeDue) >= 2) => Cardinality(WelcomesSent) = 1

\* The user_message tasks that found the record opted in and bound to no
\* thread.
Threadless == {i \in TasksOf("user_message") :
                 tasks[i].pc = "done" /\ tasks[i].tguser.can_message
                 /\ tasks[i].tguser.thread_id = None}

\* The threads into which the tasks of S forwarded their message.
ForwardTargets(S) == {ForwardedInto(tasks[i]) : i \in S}

\* C33: when user_message handlers have handled, in any interleaving and
\* with no 'thread not found' answered, messages of a gate-open user whose
\* record had no thread_id, at most one thread was created for the user and
\* every one of the messages was forwarded into it.
C33_OneThreadPerUser ==
  (Quiet /\ Cardinality(Threadless) >= 2) =>
    /\ Cardinality(topics) <= 1
    /\ ForwardTargets(Threadless) = topics

\* C34: an admin message posted in a thread that the bot created for a
\* user and into which it forwarded a message of the user is copied to the
\* user, whatever the interleaving with the user's user_message handlers:
\* the finished admin_message task has delivered its copy.
C34_AdminReplyNotLost ==
  \A i \in TasksOf("admin_message") :
    tasks[i].pc = "done" => Cardinality(OkCalls(tasks[i], "copy")) = 1

\* ------------------------------------------------------ the relay of replies
\* A user opts in and writes; the admins reply, edit, sync, delete and use
\* the quick replies, the gateway failing at most one call of an admin-side
\* run; at most MaxRelayEvents events.
NextRelay ==
  \/ RecvUserMessage(1, NoFault, MaxRelayEvents)
  \/ PressButton(1, "start_chat", NoFault, MaxRelayEvents)
  \/ \E a \in Admins, th \in topics, f \in FaultSets : AdminPost(a, th, f, MaxRelayEvents)
  \/ \E a \in Admins, m \in groupmsgs, f \in FaultSets :
       AdminEdit(a, m, "text", f, MaxRelayEvents)
  \/ \E a \in Admins, cmd \in {"sync", "del"}, m \in groupmsgs, f \in FaultSets :
       AdminCommand(a, cmd, m.thread, m.id, f, MaxRelayEvents)
  \/ \E a \in Admins, th \in topics, f \in FaultSets : QuickReply(a, th, f, MaxRelayEvents)
  \/ \E i \in Slots : Return(i)

SpecRelay == Init /\ [][NextRelay]_vars

\* The admin message whose copy run t delivers.
CopiedMsg(t) == IF t.h = "admin_message" THEN t.mid ELSE MuMsg(t)

\* The finished run t delivered a copy of an admin message (a reply, or the
\* replacement made by the edit or sync fallback).
CopyRun(t) ==
  /\ t.h \in {"admin_message", "admin_message_edit", "admin_sync_message"}
  /\ t.pc = "done" /\ OkCalls(t, "copy") # {}

\* C35: the mirror mapping is one-to-one.  After any sequence of admin
\* replies, edits, syncs and deletes no two mirror entries name the same
\* message of a user's chat; the entry of an admin message names a copy of
\* that message no older than any copy of it in the user's chat; and a run
\* that delivered a copy leaves the entry of its admin message naming that
\* copy.
C35_MirrorOneToOne ==
  /\ \A r1, r2 \in msgmirror :
       (r1.user_chat_id = r2.user_chat_id /\ r1.user_msg_id = r2.user_msg_id) => r1 = r2
  /\ \A r \in msgmirror, c \in userchat :
       (c.chat = r.user_chat_id /\ c.of = r.admin_msg_id /\ r.admin_chat_id = GroupId)
         => c.id <= r.user_msg_id
  /\ CopyRun(Last) =>
       \A k \in OkCalls(Last, "copy") :
         /\ Cardinality(KeyRows(msgmirror, CopiedMsg(Last))) = 1
         /\ MirrorGet(msgmirror, GroupId, CopiedMsg(Last)).user_msg_id = Last.calls[k].id

\* Two admin messages are mirrored, and the edit of one has replaced its
\* copy: its entry names the replacement, the other entry its first copy.
C35_Witness ==
  /\ Finished("admin_message_edit") /\ CopyRun(Last)
  /\ Cardinality(msgmirror) = 2
  /\ Found(Last.mapping)
  /\ MirrorGet(msgmirror, GroupId, Last.mid).user_msg_id > Last.mapping.user_msg_id
  /\ \E r \in msgmirror : r.admin_msg_id # Last.mid /\ r.user_msg_id < Last.mapping.user_msg_id

\* ------------------------------------------------ delivered and referenced
\* Message c of a user's chat is named by a mirror entry.
Referenced(c) ==
  \E r \in msgmirror : r.user_chat_id = c.chat /\ r.user_msg_id = c.id

\* C36 as stated: every admin-originated message present in a user's chat
\* (a copy of an admin message, a replacement copy, a quick-reply answer)
\* is named by a mirror entry.
C36_AsStated == \A c \in userchat : Referenced(c)

\* The copies of admin messages in the users' chats are accounted for: an
\* entry of the copy's admin message names the copy or a newer copy of the
\* same message, or no entry of that admin message exists.  A quick-reply
\* answer is named by no entry.
Accounted ==
  \A c \in userchat :
    IF c.of = 0 THEN ~Referenced(c)
    ELSE \/ KeyRows(msgmirror, c.of) = {}
         \/ \E r \in KeyRows(msgmirror, c.of) :
              r.user_chat_id = c.chat /\ r.user_msg_id >= c.id

\* The entry of an admin message disappears only in a run of the delete
\* command that replies to that message.
DroppedByDelete ==
  \A r \in msgmirror :
    KeyRows(msgmirror', r.admin_msg_id) = {} =>
      (tasks'[1].h = "admin_delete_message" /\ tasks'[1].reply_to = r.admin_msg_id)

\* C36, amended: a run that delivers a copy of an admin message (a reply,
\* or a replacement made by the edit or sync fallback) leaves the copy
\* named by the mirror entry of that message; the entry then names that
\* copy or a newer copy of the message until a delete command replying to
\* the message drops it, whether or not the deletion of the copy was
\* accepted; a quick-reply answer is never named by a mirror entry.
C36_CopiesReferenced ==
  /\ [](Accounted
        /\ (CopyRun(Last) => \A k \in OkCalls(Last, "copy") :
              \E r \in KeyRows(msgmirror, CopiedMsg(Last)) :
                r.user_msg_id = Last.calls[k].id))
  /\ [][DroppedByDelete]_vars

\* A quick-reply answer was delivered to a user whose chat holds the copy
\* of an admin reply: the copy is named by an entry, the answer by none.
C36_Witness ==
  /\ Finished("admin_quick_reply_handler") /\ OkCalls(Last, "quick") # {}
  /\ \E c \in userchat : c.of = 0 /\ ~Referenced(c)
  /\ \E c \in userchat : c.of # 0 /\ Referenced(c)

\* ------------------------------------------- admins who change their name
\* msg.from_user.full_name or msg.from_user.username at two moments: an
\* admin's display name is the admin's to change.
DisplayNames == {"adm", "ann"}
StatAdmins == {1, 2}

\* adminstats.bump called with the name the admin shows at that moment.
CallBumpAs(a, name, field) ==
  /\ nev < MaxDbOps
  /\ nev' = nev + 1
  /\ adminstats' = AdminStatsBump(adminstats, a, name, field, today)
  /\ tasks' = [tasks EXCEPT ![1] = [DbCall("adminstats.bump") EXCEPT !.a = a, !.kind = field]]
  /\ UNCHANGED <<added, schema, sweep, tgusers, actionstats, msgtodel, msgmirror, topics,
                 topic_seq, pm_seq, userchat, groupmsgs, group_seq, cfg, today, dblock,
                 nu, scn>>

NextNames ==
  \/ \E a \in StatAdmins, name \in DisplayNames, field \in StatFields :
       CallBumpAs(a, name, field)
  \/ NextDay
  \/ \E from_date \in Days, to_date \in Days : CallReport(from_date, to_date, FALSE)

SpecNames == Init /\ [][NextNames]_vars

\* The stat rows of admin a on the days from_date..to_date.
StatRows(a, from_date, to_date) ==
  {r \in adminstats : r.admin_id = a /\ from_date <= r.date /\ r.date <= to_date}

\* C37: get_range(from, to) has exactly one row per admin that has a stat
\* row in the range, with the sums of the admin's replies, edits and
\* deletes over the days of the range, the rows ordered by the sum of
\* replies, descending, whatever names the admin's rows carry.
C37_GetRange ==
  \A from_date \in Days, to_date \in Days :
    LET rows == AdminStatsGetRange(adminstats, from_date, to_date)
        ids == {a \in StatAdmins : StatRows(a, from_date, to_date) # {}}
    IN /\ Len(rows) = Cardinality(ids)
       /\ \A a \in ids : \E k \in 1..Len(rows) :
            /\ rows[k].admin_id = a
            /\ \A f \in StatFields : rows[k][f] = SumOf(StatRows(a, from_date, to_date), f)
       /\ \A j, k \in 1..Len(rows) : j < k => rows[j].replies >= rows[k].replies

\* --------------------------------------------------- a handler that is late
\* One user-side handler, in slot 2, is suspended at its awaits for as
\* long as the gateway takes to answer, while the events that follow are
\* handled, each to its end, in slot 1.
LateBegin(h, pc, btn) ==
  /\ tasks[2].pc = "idle"
  /\ nev < MaxLateEvents
  /\ nev' = nev + 1
  /\ \E w0 \in {IF h = "user_btn_handler" THEN World ELSE [World EXCEPT !.pm_seq = @ + 1]} :
     /\ SetWorld(w0)
     /\ tasks' = [tasks EXCEPT ![2] =
                    [NewTask(h, pc, 1, 0, 0, IF h = "user_btn_handler" THEN 0 ELSE pm_seq + 1,
                             0, btn, "") EXCEPT !.pre = w0]]
  /\ scn' = ScnOff
  /\ UNCHANGED <<added, schema, sweep, group_seq, cfg, today, dblock, nu>>

NextLate ==
  \/ LateBegin("user_message", "um_get", "")
  \/ LateBegin("cmd_start", "cs_send", "")
  \/ LateBegin("user_btn_handler", "ub_get", "start_chat")
  \/ AsyncStep(2)
  \/ RecvUserMessage(1, NoFault, MaxLateEvents)
  \/ PressButton(1, "start_chat", NoFault, MaxLateEvents)
  \/ \E a \in Admins, th \in topics : AdminPost(a, th, NoFault, MaxLateEvents)
  \/ \E a \in Admins, cmd \in {"ban", "unban"}, m \in groupmsgs :
       AdminCommand(a, cmd, m.thread, m.id, NoFault, MaxLateEvents)
  \/ Return(1)

SpecLate == Init /\ [][NextLate]_vars

\* C38: the banned flag of a record changes from TRUE to FALSE only in a
\* run of the unban command: no /start, private message, contact action or
\* subject selection of the user, in any sequence or interleaving, leaves a
\* banned user not banned.
C38_BannedOnlyByCommand ==
  [][\A r \in tgusers :
       (r.banned /\ ~TgUserGet(tgusers', r.user_id, None).banned)
         => (tasks'[1] # tasks[1] /\ tasks'[1].h = "admin_unban_user")]_vars

\* ------------------------------------------- a recovery step that fails
\* The gateway refuses a call of the handler and then the call that
\* follows it, which is the notice of handle_error when the first refusal
\* is one that handle_error reports to the admins.
MaxRecoveryEvents == 3
FaultPairs ==
  {NoFault} \cup {{<<k, e>>, <<k + 1, e2>>} : k \in 1..(MaxCalls - 1),
                                              e \in {"Forbidden", "NoRights"},
                                              e2 \in FaultKinds \ {"NoRights"}}
NextRecovery == Events({1}, FaultPairs, MaxRecoveryEvents)

SpecRecovery == Init /\ [][NextRecovery]_vars

\* C39: no failure leaves a wrapped handler: whatever fails during the
\* handling of an event, the recovery step of handle_error included, the
\* wrapper returns normally to the dispatcher.
C39_NoFailureEscapes == \A i \in Slots : ~tasks[i].escaped

====
